---- MODULE Spec2Model ----
(***************************************************************************)
(* A model of the evidence pipeline of open-quill: findRelevantQuotesAndStats *)
(* (quote finder) and getRelevantHumanitiesArticles with its re-scoring     *)
(* variant getRelevantHumanitiesArticlesWithAnalysis (research finder),     *)
(* readSourceFile called on its own, and the autocomplete route with its    *)
(* request cache.                                                           *)
(*                                                                         *)
(* Relevance scores and thresholds are JavaScript numbers in the source;   *)
(* here they are integers counted in tenths: 0.5 is 5, 0.6 is 6, 1.0 is 10. *)
(* A Completion reply is a sequence of tokens: a left brace, a right brace, *)
(* a run of prose, or the member list of a JSON object (its parsed value). *)
(* A source text is a sequence of segments, each one lexical class of the  *)
(* regular expressions of extractFallback, with its length in characters.  *)
(***************************************************************************)
EXTENDS Integers, Sequences, FiniteSets, TLC

VARIABLES
    pc,               \* where findRelevantQuotesAndStats stands
    apiKey,           \* process.env.ANTHROPIC_API_KEY is set
    userText,         \* argument userText
    sourceFilePath,   \* argument sourceFilePath
    options,          \* maxStats, maxQuotes, relevanceThreshold after defaults
    sourceText,       \* const sourceText
    sourceRead,       \* history: readSourceFile has resolved
    userContext,      \* const userContext
    analysisHow,      \* history: what the intent-analysis reply amounted to
    extractedContent, \* const extractedContent
    extractHow,       \* how extractFromSource came to its return value
    allItems,         \* scoreContentRelevance: allItems
    settled,          \* indices of allItems whose scoring promise has settled
    scoredItems,      \* the values the settled scoring promises resolved with
    answers,          \* history: what the reply to each scoring call amounted to
    scoredContent,    \* const scoredContent
    result,           \* the value the pipeline resolved with
    error,            \* the message of the Error the pipeline rejected with
    callLog,          \* the Completion calls issued, in order
    papers,           \* removeDuplicatePapers: argument papers
    cursor,           \* removeDuplicatePapers: papers iterated so far
    unique,           \* removeDuplicatePapers: unique
    keptAt,           \* input index of each entry of unique
    seenTitles,       \* removeDuplicatePapers: seenTitles
    seenDOIs,         \* removeDuplicatePapers: seenDOIs
    rpc,              \* where the research finder stands
    withAnalysis,     \* the entry point is getRelevantHumanitiesArticlesWithAnalysis
    researchText,     \* research finder: argument userText
    maxPapers,        \* research finder: argument maxPapers of the entry point
    topics,           \* getRelevantHumanitiesArticles: topics
    topicsHow,        \* history: which branch gave topics its value
    queries,          \* the search requests each source has issued, in order
    responses,        \* history: what each source's requests were answered with
    found,            \* searchMultipleHumanitiesSources: results
    analyzedPapers,   \* the values the settled analysisPromises resolved with
    rescored,         \* indices of the papers whose analysis promise has settled
    verdicts,         \* history: what the reply to each re-scoring call amounted to
    researchCalls,    \* the Completion calls of the research finder, in order
    articles,         \* the value the research finder resolved with
    researchError,    \* the message of the Error the research finder rejected with
    readPc,           \* where a call of readSourceFile on its own stands
    filePath,         \* readSourceFile: argument filePath
    fileExists,       \* fs.readFile finds a readable file at filePath
    fileContent,      \* the lines of the file
    readResult,       \* what readSourceFile settled with
    openaiKey,        \* process.env.OPENAI_API_KEY is set
    clock,            \* Date.now(), in seconds
    requestCache,     \* the module's requestCache: key -> suggestion, timestamp
    requests          \* the POST requests received so far, each with where it stands

pipelineVars == <<pc, apiKey, userText, sourceFilePath, options, sourceText,
                  sourceRead, userContext, analysisHow, extractedContent, extractHow, allItems, settled,
                  scoredItems, answers, scoredContent, result, error, callLog>>
dedupVars == <<papers, cursor, unique, keptAt, seenTitles, seenDOIs>>
researchVars == <<rpc, withAnalysis, researchText, maxPapers, topics, topicsHow, queries,
                  responses, found, analyzedPapers, rescored, verdicts, researchCalls,
                  articles, researchError>>
readVars == <<readPc, filePath, fileExists, fileContent, readResult>>
cacheVars == <<openaiKey, clock, requestCache, requests>>
sideVars == <<readVars, cacheVars>>
vars == <<pipelineVars, dedupVars, researchVars, sideVars>>

----------------------------------------------------------------------------
(* Bounds of the model *)

\* most candidates one generative extraction reply carries
MaxItems == 2
\* most scored candidates the ranking step is given on its own
MaxScored == 3
\* largest maxStats / maxQuotes a caller passes to the ranking step on its own
MaxCap == 3
\* most papers handed to removeDuplicatePapers
MaxPapers == 3
\* the POST requests the autocomplete route receives
MaxRequests == 2
\* the seconds the clock runs for
MaxTime == 40

(* Program constants *)
DefaultMaxStats == 5
DefaultMaxQuotes == 5
DefaultThreshold == 6
NeutralScore == 5
ContextRadius == 100
QuoteMinLen == 20
QuoteMaxLen == 300
PromptPrefixLen == 8000

----------------------------------------------------------------------------
(* Sequences *)

Range(s) == {s[i] : i \in 1..Len(s)}

Min2(a, b) == IF a < b THEN a ELSE b
Max2(a, b) == IF a > b THEN a ELSE b

RECURSIVE SumLen(_)
SumLen(s) == IF s = <<>> THEN 0 ELSE s[1].len + SumLen(Tail(s))

RECURSIVE Concat(_)
Concat(ss) == IF ss = <<>> THEN <<>> ELSE ss[1] \o Concat(Tail(ss))

----------------------------------------------------------------------------
(* Completion replies and the parsing of them *)

LB == [k |-> "lbrace"]
RB == [k |-> "rbrace"]
TXT == [k |-> "text"]
MEM(p) == [k |-> "members", v |-> p]

EmptyObject == <<>>
HasKey(obj, key) == key \in DOMAIN obj

\* content.match(/\{[\s\S]*\}/): from the first left brace to the last right
\* brace after it; <<>> stands for null
MatchGreedy(toks) ==
    LET opens == {i \in 1..Len(toks) : toks[i] = LB}
        i0 == IF opens = {} THEN 0 ELSE CHOOSE i \in opens : \A j \in opens : i <= j
        closes == {j \in 1..Len(toks) : toks[j] = RB /\ j > i0}
    IN IF i0 = 0 \/ closes = {} THEN <<>>
       ELSE SubSeq(toks, i0, CHOOSE j \in closes : \A l \in closes : l <= j)

\* content.match(/\{[\s\S]*?\}/): from the first left brace to the first right
\* brace after it
MatchLazy(toks) ==
    LET opens == {i \in 1..Len(toks) : toks[i] = LB}
        i0 == IF opens = {} THEN 0 ELSE CHOOSE i \in opens : \A j \in opens : i <= j
        closes == {j \in 1..Len(toks) : toks[j] = RB /\ j > i0}
    IN IF i0 = 0 \/ closes = {} THEN <<>>
       ELSE SubSeq(toks, i0, CHOOSE j \in closes : \A l \in closes : j <= l)

Depth(toks, i) ==
    Cardinality({j \in 1..i : toks[j] = LB}) - Cardinality({j \in 1..i : toks[j] = RB})

\* JSON.parse of a matched span: an object is a left brace, members and nested
\* objects, and the matching right brace; prose inside it, or braces that do
\* not match, make it throw (ok = FALSE)
JSONParse(m) ==
    LET wellFormed ==
            /\ Len(m) >= 2
            /\ \A i \in 1..Len(m) : m[i] # TXT
            /\ \A i \in 1..(Len(m) - 1) : Depth(m, i) >= 1
            /\ Depth(m, Len(m)) = 0
        top == {i \in 1..Len(m) : m[i].k = "members" /\ Depth(m, i) = 1}
    IN IF wellFormed /\ Cardinality(top) <= 1
       THEN [ok |-> TRUE,
             v |-> IF top = {} THEN EmptyObject ELSE m[CHOOSE i \in top : TRUE].v]
       ELSE [ok |-> FALSE, v |-> EmptyObject]

\* what anthropic.messages.create may settle with
Rejected == [status |-> "rejected", text |-> <<>>]
NoContent == [status |-> "nocontent", text |-> <<>>]
Reply(toks) == [status |-> "ok", text |-> toks]

\* the reply texts tried for a set P of member lists: every object on its
\* own, and one of them inside prose, before a nested object, and before a
\* second object; then replies with no object or a malformed one
ReplyTexts(P) ==
    LET p0 == CHOOSE p \in P : TRUE
    IN {<<LB, MEM(p), RB>> : p \in P}
       \cup {<<TXT, LB, MEM(p0), RB, TXT>>,
             <<LB, MEM(p0), LB, RB, RB>>,
             <<LB, MEM(p0), RB, TXT, LB, RB>>}
       \cup {<<>>, <<TXT>>, <<LB, RB>>, <<LB, TXT, RB>>, <<RB, LB>>, <<LB, TXT>>}

Replies(P) == {Reply(t) : t \in ReplyTexts(P)} \cup {Rejected, NoContent}

----------------------------------------------------------------------------
(* Source texts and the pattern-based extractor *)

\* The segments a source text is made of. kind is the lexical class:
\*   pct    "42%"          matches statPatterns[0]
\*   money  "$5 million"   matches statPatterns[1], and statPatterns[2] one
\*                         character further on ("5 million")
\*   mag    "12 percent"   matches statPatterns[2]
\*   ratio  "3 out of 4"   matches statPatterns[3]
\*   quoted a span between double quotes, len counting both quotes;
\*          matches quotePattern when 20..300 characters lie between them
\*   prose  matches nothing
Pct == [kind |-> "pct", txt |-> "42%", inner |-> "42%", len |-> 3]
Money == [kind |-> "money", txt |-> "$5 million", inner |-> "5 million", len |-> 10]
Ratio == [kind |-> "ratio", txt |-> "3 out of 4", inner |-> "3 out of 4", len |-> 10]
Prose == [kind |-> "prose", txt |-> " of respondents agree. ", inner |-> "", len |-> 23]
LongProse == [kind |-> "prose", txt |-> "(8000 characters of prose)", inner |-> "", len |-> 8000]
Quoted == [kind |-> "quoted", txt |-> "\"we must act on this now\"",
           inner |-> "we must act on this now", len |-> 25]
ShortQuoted == [kind |-> "quoted", txt |-> "\"no\"", inner |-> "no", len |-> 4]

\* the contents a readable source file may have
SourceTexts ==
    { <<>>,
      <<Pct, Prose>>,
      <<LongProse, Ratio>>,
      <<Money, ShortQuoted, Quoted>> }

\* match.index of segment i
IndexOf(text, i) == SumLen(SubSeq(text, 1, i - 1))

\* the matches of statPatterns[p] in text, in text order: <<index, length, match[0]>>
StatMatches(text, p) ==
    LET hit(i) ==
            CASE p = 1 /\ text[i].kind = "pct" ->
                    <<[index |-> IndexOf(text, i), length |-> text[i].len, text |-> text[i].txt]>>
              [] p = 2 /\ text[i].kind = "money" ->
                    <<[index |-> IndexOf(text, i), length |-> text[i].len, text |-> text[i].txt]>>
              [] p = 3 /\ text[i].kind = "money" ->
                    <<[index |-> IndexOf(text, i) + 1, length |-> text[i].len - 1,
                       text |-> text[i].inner]>>
              [] p = 3 /\ text[i].kind = "mag" ->
                    <<[index |-> IndexOf(text, i), length |-> text[i].len, text |-> text[i].txt]>>
              [] p = 4 /\ text[i].kind = "ratio" ->
                    <<[index |-> IndexOf(text, i), length |-> text[i].len, text |-> text[i].txt]>>
              [] OTHER -> <<>>
    IN Concat([i \in 1..Len(text) |-> hit(i)])

\* the matches of quotePattern in text: match[1] is the span without its quotes
QuoteMatches(text) ==
    LET hit(i) ==
            IF /\ text[i].kind = "quoted"
               /\ text[i].len - 2 >= QuoteMinLen
               /\ text[i].len - 2 <= QuoteMaxLen
            THEN <<[index |-> IndexOf(text, i), length |-> text[i].len, text |-> text[i].inner]>>
            ELSE <<>>
    IN Concat([i \in 1..Len(text) |-> hit(i)])

\* the candidate pushed for one match: context is the window
\* sourceText.substring(start, end), kept as its two offsets
FallbackItem(text, m, label) ==
    [text |-> m.text,
     context |-> <<Max2(0, m.index - ContextRadius),
                   Min2(SumLen(text), m.index + m.length + ContextRadius)>>,
     source |-> label,
     position |-> m.index]

extractFallback(text) ==
    LET stats == Concat([p \in 1..4 |->
                    [j \in 1..Len(StatMatches(text, p)) |->
                        FallbackItem(text, StatMatches(text, p)[j], "Pattern extraction")]])
        qs == [j \in 1..Len(QuoteMatches(text)) |->
                    FallbackItem(text, QuoteMatches(text)[j], "Quotation marks")]
    IN [statistics |-> stats, quotes |-> qs]

HasStatMatch(text) == \E p \in 1..4 : StatMatches(text, p) # <<>>

----------------------------------------------------------------------------
(* The generative extractor *)

StatisticTexts == <<"75% of users", "3 in 4 adults", "$2 billion", "12 percent", "9 out of 10">>
QuoteTexts == <<"quote one", "quote two", "quote three", "quote four", "quote five">>

\* the first n candidates of a kind, as a reply lists them
GenItems(texts, n) ==
    [j \in 1..n |-> [text |-> texts[j], context |-> <<0, 0>>,
                     source |-> "reply", position |-> j]]

\* the objects an extraction reply may hold: the asked-for shape, and objects
\* that lack one of its keys
ExtractionObjects ==
    {[statistics |-> GenItems(StatisticTexts, ns), quotes |-> GenItems(QuoteTexts, nq)] :
        ns \in 0..MaxItems, nq \in 0..MaxItems}
    \cup {[statistics |-> GenItems(StatisticTexts, 1)], [quotes |-> <<>>]}

ExtractionReplies ==
    Replies({o \in ExtractionObjects :
                Len(IF HasKey(o, "statistics") THEN o.statistics ELSE <<>>)
                + Len(IF HasKey(o, "quotes") THEN o.quotes ELSE <<>>) <= MaxItems})

\* extractFromSource after its Completion call resolved with reply:
\* how |-> which return statement ran
extractFromSource(text, reply) ==
    IF reply.status = "nocontent"
    THEN [how |-> "fallback", v |-> extractFallback(text)]
    ELSE LET jsonMatch == MatchGreedy(reply.text)
         IN IF jsonMatch = <<>>
            THEN [how |-> "nomatch", v |-> [statistics |-> <<>>, quotes |-> <<>>]]
            ELSE IF JSONParse(jsonMatch).ok
                 THEN [how |-> "parsed", v |-> JSONParse(jsonMatch).v]
                 ELSE [how |-> "fallback", v |-> extractFallback(text)]

----------------------------------------------------------------------------
(* The intent analyzer *)

AnalysisObjects ==
    {[mainArgument |-> "dark mode helps accessibility", keyTopics |-> <<"accessibility">>,
      evidenceNeeds |-> <<"statistics">>, gaps |-> <<"user data">>, audience |-> "designers"]}

AnalysisReplies == Replies(AnalysisObjects)

Placeholder(mainArgument) ==
    [mainArgument |-> mainArgument, keyTopics |-> <<"general">>,
     evidenceNeeds |-> <<"supporting data">>, gaps |-> <<"needs more evidence">>,
     audience |-> "general"]

\* History of the intent-analysis reply: it has no content block, holds no
\* brace-delimited span, holds one that parses, or holds one that does not
Analysed(reply) ==
    IF reply.status = "nocontent" THEN "nocontent"
    ELSE IF MatchGreedy(reply.text) = <<>> THEN "noobject"
    ELSE IF JSONParse(MatchGreedy(reply.text)).ok THEN "object"
    ELSE "malformed"

\* analyzeUserNeeds with one placeholder for both returns
analyzeUserNeedsOnePlaceholder(reply) ==
    IF reply.status = "ok" /\ MatchGreedy(reply.text) # <<>>
       /\ JSONParse(MatchGreedy(reply.text)).ok
    THEN JSONParse(MatchGreedy(reply.text)).v
    ELSE Placeholder("Could not determine main argument")

\* analyzeUserNeeds after its Completion call resolved with reply
analyzeUserNeeds(reply) ==
    IF reply.status = "nocontent"
    THEN Placeholder("Analysis unavailable")
    ELSE LET jsonMatch == MatchGreedy(reply.text)
         IN IF jsonMatch = <<>>
            THEN Placeholder("Could not determine main argument")
            ELSE IF JSONParse(jsonMatch).ok
                 THEN JSONParse(jsonMatch).v
                 ELSE Placeholder("Analysis unavailable")

----------------------------------------------------------------------------
(* The relevance scorer *)

\* the objects a scoring reply may hold; score is in tenths
ScoreObjects ==
    {[score |-> 7, reason |-> "supports the main argument"],
     [score |-> 0, reason |-> "supports the main argument"],
     [score |-> 12, reason |-> "supports the main argument"],
     [reason |-> "supports the main argument"],
     [score |-> 7]}

ScoreReplies == Replies(ScoreObjects)

\* { ...item, relevanceScore: score, relevanceReason: reason }
WithRelevance(item, score, reason) ==
    [relevanceScore |-> score, relevanceReason |-> reason] @@ item

\* a neutral default of zero relevance
NeutralItemZero(item) == WithRelevance(item, 0, "Could not determine relevance")

\* the return statement after the try block
NeutralItem(item) == WithRelevance(item, NeutralScore, "Could not determine relevance")

\* the score as the reply states it, and zero when it states none
ScoreAsStated(obj) == IF HasKey(obj, "score") THEN obj.score ELSE 0

\* result.score || 0.5
ScoreOrNeutral(obj) ==
    IF HasKey(obj, "score") /\ obj.score # 0 THEN obj.score ELSE NeutralScore

\* result.reason || 'No specific reason provided'
ReasonOrDefault(obj) ==
    IF HasKey(obj, "reason") /\ obj.reason # "" THEN obj.reason
    ELSE "No specific reason provided"

\* scoreIndividualItem with the Completion call outside its try block: a
\* rejected call rejects the promise
scoreIndividualItemNoCatch(item, reply) ==
    IF reply.status = "rejected"
    THEN [ok |-> FALSE, v |-> item]
    ELSE IF reply.status = "ok" /\ MatchLazy(reply.text) # <<>>
            /\ JSONParse(MatchLazy(reply.text)).ok
         THEN [ok |-> TRUE,
               v |-> WithRelevance(item, ScoreOrNeutral(JSONParse(MatchLazy(reply.text)).v),
                                   ReasonOrDefault(JSONParse(MatchLazy(reply.text)).v))]
         ELSE [ok |-> TRUE, v |-> NeutralItem(item)]

\* scoreIndividualItem after its Completion call settled with reply: the
\* promise it returns resolves (ok) with v
scoreIndividualItem(item, reply) ==
    IF reply.status # "ok"
    THEN [ok |-> TRUE, v |-> NeutralItem(item)]
    ELSE LET jsonMatch == MatchLazy(reply.text)
         IN IF jsonMatch = <<>>
            THEN [ok |-> TRUE, v |-> NeutralItem(item)]
            ELSE IF JSONParse(jsonMatch).ok
                 THEN [ok |-> TRUE,
                       v |-> WithRelevance(item, ScoreOrNeutral(JSONParse(jsonMatch).v),
                                           ReasonOrDefault(JSONParse(jsonMatch).v))]
                 ELSE [ok |-> TRUE, v |-> NeutralItem(item)]

\* History of a scoring call: pending; failed, when the call rejected or its
\* reply holds no object that parses; else the object's score (0 when it
\* states none)
Pending == [kind |-> "pending", score |-> 0]
Answer(reply) ==
    IF reply.status = "ok" /\ MatchLazy(reply.text) # <<>> /\ JSONParse(MatchLazy(reply.text)).ok
    THEN [kind |-> "object",
          score |-> IF HasKey(JSONParse(MatchLazy(reply.text)).v, "score")
                    THEN JSONParse(MatchLazy(reply.text)).v.score ELSE 0]
    ELSE [kind |-> "failed", score |-> 0]

\* one call for all the candidates together
ScoringCallsOnce(items) == <<"score">>

\* allItems.map(item => scoreIndividualItem(...)): every candidate's call is
\* issued before the first of them settles
ScoringCalls(items) == [i \in 1..Len(items) |-> "score"]

\* Promise.all with its values filled in the order the promises settle
ResolveInCompletionOrder(values, i, v) ==
    LET k == CHOOSE j \in 1..Len(values) :
                 /\ ~HasKey(values[j], "relevanceScore")
                 /\ \A h \in 1..(j - 1) : HasKey(values[h], "relevanceScore")
    IN [values EXCEPT ![k] = v]

\* Promise.all: the value of promise i takes place i of the values
ResolveAt(values, i, v) == [values EXCEPT ![i] = v]

\* Promise.all resolving as soon as one promise has settled
SomeSettled(items, done) == done # {}

\* Promise.all resolves once every promise has settled
AllSettled(items, done) == done = 1..Len(items)

\* scoreContentRelevance: allItems
TypedItems(ec) ==
    [i \in 1..Len(ec.statistics) |-> [type |-> "statistic"] @@ ec.statistics[i]]
    \o [i \in 1..Len(ec.quotes) |-> [type |-> "quote"] @@ ec.quotes[i]]

OfType(items, type) == SelectSeq(items, LAMBDA it : it.type = type)

\* scoreContentRelevance: the object returned once Promise.all resolved
SplitByType(items) ==
    [statistics |-> OfType(items, "statistic"), quotes |-> OfType(items, "quote")]

----------------------------------------------------------------------------
(* Ranking and filtering *)

\* .filter(x => x.relevanceScore >= relevanceThreshold)
FilterRelevant(items, threshold) ==
    SelectSeq(items, LAMBDA it : HasKey(it, "relevanceScore")
                                 /\ it.relevanceScore >= threshold)

\* an insertion that puts x before the elements of its own score
RECURSIVE InsertBeforeTies(_, _)
InsertBeforeTies(sorted, x) ==
    IF sorted = <<>> THEN <<x>>
    ELSE IF Head(sorted).relevanceScore > x.relevanceScore
         THEN <<Head(sorted)>> \o InsertBeforeTies(Tail(sorted), x)
         ELSE <<x>> \o sorted

\* one insertion of the stable sort: x goes behind every element the
\* comparator does not put after it
RECURSIVE InsertByScore(_, _)
InsertByScore(sorted, x) ==
    IF sorted = <<>> THEN <<x>>
    ELSE IF Head(sorted).relevanceScore >= x.relevanceScore
         THEN <<Head(sorted)>> \o InsertByScore(Tail(sorted), x)
         ELSE <<x>> \o sorted

\* .sort((a, b) => b.relevanceScore - a.relevanceScore); Array.prototype.sort
\* is stable
RECURSIVE SortByScoreFrom(_, _)
SortByScoreFrom(sorted, rest) ==
    IF rest = <<>> THEN sorted
    ELSE SortByScoreFrom(InsertByScore(sorted, Head(rest)), Tail(rest))

\* the comparator with its operands swapped: (a, b) => a.relevanceScore - b.relevanceScore
RECURSIVE InsertAscending(_, _)
InsertAscending(sorted, x) ==
    IF sorted = <<>> THEN <<x>>
    ELSE IF Head(sorted).relevanceScore <= x.relevanceScore
         THEN <<Head(sorted)>> \o InsertAscending(Tail(sorted), x)
         ELSE <<x>> \o sorted
RECURSIVE SortAscendingFrom(_, _)
SortAscendingFrom(sorted, rest) ==
    IF rest = <<>> THEN sorted
    ELSE SortAscendingFrom(InsertAscending(sorted, Head(rest)), Tail(rest))
SortAscending(items) == SortAscendingFrom(<<>>, items)

SortByScore(items) == SortByScoreFrom(<<>>, items)

\* a slice that keeps the element at end as well
SliceThrough(items, end) ==
    LET k == IF end < 0 THEN Max2(Len(items) + end + 1, 0) ELSE Min2(end + 1, Len(items))
    IN SubSeq(items, 1, k)

\* .slice(0, end): a negative end counts from the end of the array
SliceTo(items, end) ==
    LET k == IF end < 0 THEN Max2(Len(items) + end, 0) ELSE Min2(end, Len(items))
    IN SubSeq(items, 1, k)

Rank(items, threshold, max) == SliceTo(SortByScore(FilterRelevant(items, threshold)), max)

----------------------------------------------------------------------------
(* The recommendation generator *)

FixedGuidance ==
    "No relevant statistics or quotes found. Consider using different source material or refining your search terms."

\* generateUsageRecommendations without its guard
NothingToRecommendUnguarded(statistics, quotes) == FALSE

\* statistics.length === 0 && quotes.length === 0
NothingToRecommend(statistics, quotes) == Len(statistics) = 0 /\ Len(quotes) = 0

\* the reply is prose, taken as it is
RecommendationReplies ==
    {[status |-> "ok", text |-> "Open with the strongest statistic."],
     [status |-> "ok", text |-> ""], Rejected, NoContent}

----------------------------------------------------------------------------
(* findRelevantQuotesAndStats *)

\* the destructuring of options with its defaults
WithDefaults(opts) ==
    [maxStats |-> IF HasKey(opts, "maxStats") THEN opts.maxStats ELSE DefaultMaxStats,
     maxQuotes |-> IF HasKey(opts, "maxQuotes") THEN opts.maxQuotes ELSE DefaultMaxQuotes,
     relevanceThreshold |-> IF HasKey(opts, "relevanceThreshold")
                            THEN opts.relevanceThreshold ELSE DefaultThreshold]

\* the options callers pass: none, and a command line with --max-stats=1
\* --max-quotes=3 --threshold=0.2
CallerOptions ==
    {EmptyObject,
     [maxStats |-> 1, maxQuotes |-> 3, relevanceThreshold |-> 2]}

\* the catch block raising its own message alone
WrappedWithoutCause(message) == <<"Failed to analyze content">>

\* catch (error) { throw new Error(`Failed to analyze content: ${error.message}`) }
Wrapped(message) == <<"Failed to analyze content">> \o message

UpstreamError == <<"Completion request failed">>
TypeError == <<"Cannot read properties of undefined">>

\* the short circuit with its test inverted
NothingExtractedInverted(ec) == Len(ec.statistics) # 0 /\ Len(ec.quotes) # 0

\* extractedContent.statistics.length === 0 && extractedContent.quotes.length === 0
NothingExtracted(ec) == Len(ec.statistics) = 0 /\ Len(ec.quotes) = 0

\* the research finder is not invoked
ResearchUnused ==
    /\ rpc = "unused"
    /\ withAnalysis = FALSE
    /\ researchText = <<>>
    /\ maxPapers = 0
    /\ topics = <<>>
    /\ topicsHow = "none"
    /\ queries = <<>>
    /\ responses = <<>>
    /\ found = <<>>
    /\ analyzedPapers = <<>>
    /\ rescored = {}
    /\ verdicts = <<>>
    /\ researchCalls = <<>>
    /\ articles = <<>>
    /\ researchError = <<>>

\* readSourceFile is not called on its own
ReadUnused ==
    /\ readPc = "unused"
    /\ filePath = <<"", "">>
    /\ fileExists = FALSE
    /\ fileContent = <<>>
    /\ readResult = <<>>

\* the autocomplete route receives no request
CacheUnused ==
    /\ openaiKey = FALSE
    /\ clock = 0
    /\ requestCache = <<>>
    /\ requests = <<>>

SidesUnused == ReadUnused /\ CacheUnused

Throw(message) ==
    /\ pc' = "threw"
    /\ error' = message
    /\ result' = EmptyObject

Init ==
    /\ pc = "idle"
    /\ apiKey \in BOOLEAN
    /\ userText \in {"", "I am writing about UI accessibility preferences."}
    /\ sourceFilePath \in {"", "report.txt", "missing.txt"}
    /\ options \in {WithDefaults(o) : o \in CallerOptions}
    /\ sourceText = <<>>
    /\ sourceRead = FALSE
    /\ userContext = EmptyObject
    /\ analysisHow = "none"
    /\ extractedContent = EmptyObject
    /\ extractHow = "none"
    /\ allItems = <<>>
    /\ settled = {}
    /\ scoredItems = <<>>
    /\ answers = <<>>
    /\ scoredContent = EmptyObject
    /\ result = EmptyObject
    /\ error = <<>>
    /\ callLog = <<>>
    /\ papers = <<>>
    /\ cursor = 0
    /\ unique = <<>>
    /\ keptAt = <<>>
    /\ seenTitles = {}
    /\ seenDOIs = {}
    /\ ResearchUnused
    /\ SidesUnused

\* the checks before the try block, up to the await of readSourceFile
Start ==
    /\ pc = "idle"
    /\ IF ~apiKey
       THEN Throw(<<"ANTHROPIC_API_KEY environment variable is required">>)
       ELSE IF userText = "" \/ sourceFilePath = ""
            THEN Throw(<<"Both userText and sourceFilePath are required">>)
            ELSE /\ pc' = "reading"
                 /\ UNCHANGED <<error, result>>
    /\ UNCHANGED <<sourceRead, analysisHow, apiKey, userText, sourceFilePath, options, sourceText, userContext,
                   extractedContent, extractHow, allItems, settled, scoredItems,
                   answers, scoredContent, callLog>>
    /\ UNCHANGED <<dedupVars, researchVars, sideVars>>

\* readSourceFile settles; on success analyzeUserNeeds issues its call
ReadDone ==
    /\ pc = "reading"
    /\ IF sourceFilePath = "missing.txt"
       THEN /\ Throw(Wrapped(<<"Failed to read source file", "ENOENT">>))
            /\ UNCHANGED <<sourceText, sourceRead, callLog>>
       ELSE /\ sourceText' \in SourceTexts
            /\ sourceRead' = TRUE
            /\ callLog' = Append(callLog, "analyze")
            /\ pc' = "analyzing"
            /\ UNCHANGED <<error, result>>
    /\ UNCHANGED <<analysisHow, apiKey, userText, sourceFilePath, options, userContext,
                   extractedContent, extractHow, allItems, settled, scoredItems,
                   answers, scoredContent>>
    /\ UNCHANGED <<dedupVars, researchVars, sideVars>>

\* the call of analyzeUserNeeds settles; on success extractFromSource issues its call
AnalyzeReply(reply) ==
    /\ pc = "analyzing"
    /\ IF reply.status = "rejected"
       THEN /\ Throw(Wrapped(UpstreamError))
            /\ UNCHANGED <<userContext, analysisHow, callLog>>
       ELSE /\ userContext' = analyzeUserNeeds(reply)
            /\ analysisHow' = Analysed(reply)
            /\ callLog' = Append(callLog, "extract")
            /\ pc' = "extracting"
            /\ UNCHANGED <<error, result>>
    /\ UNCHANGED <<sourceRead, apiKey, userText, sourceFilePath, options, sourceText,
                   extractedContent, extractHow, allItems, settled, scoredItems,
                   answers, scoredContent>>
    /\ UNCHANGED <<dedupVars, researchVars, sideVars>>

\* the call of extractFromSource settles; then the short circuit, or
\* scoreContentRelevance issues one scoring call for every candidate
ExtractReply(reply) ==
    /\ pc = "extracting"
    /\ IF reply.status = "rejected"
       THEN /\ Throw(Wrapped(UpstreamError))
            /\ UNCHANGED <<extractedContent, extractHow, allItems, scoredItems, answers, callLog>>
       ELSE LET r == extractFromSource(sourceText, reply)
                ec == r.v
            IN /\ extractedContent' = ec
               /\ extractHow' = r.how
               /\ IF \/ ~HasKey(ec, "statistics")
                     \/ ~HasKey(ec, "quotes")
                  THEN /\ Throw(Wrapped(TypeError))
                       /\ UNCHANGED <<allItems, scoredItems, answers, callLog>>
                  ELSE IF NothingExtracted(ec)
                       THEN /\ pc' = "returned"
                            /\ result' =
                                 [userContext |-> userContext,
                                  statistics |-> <<>>,
                                  quotes |-> <<>>,
                                  message |-> "No statistics or quotes were found in the source file.",
                                  sourceInfo |-> [file |-> sourceFilePath,
                                                  length |-> SumLen(sourceText)]]
                            /\ UNCHANGED <<error, allItems, scoredItems, answers, callLog>>
                       ELSE /\ allItems' = TypedItems(ec)
                            /\ scoredItems' = TypedItems(ec)
                            /\ answers' = [i \in 1..Len(TypedItems(ec)) |-> Pending]
                            /\ callLog' = callLog \o ScoringCalls(TypedItems(ec))
                            /\ pc' = "scoring"
                            /\ UNCHANGED <<error, result>>
    /\ UNCHANGED <<sourceRead, analysisHow, apiKey, userText, sourceFilePath, options, sourceText, userContext,
                   settled, scoredContent>>
    /\ UNCHANGED <<dedupVars, researchVars, sideVars>>

\* the scoring call of candidate i settles, in any order among the pending ones
ScoreReply(i, reply) ==
    /\ pc = "scoring"
    /\ i \in (1..Len(allItems)) \ settled
    /\ LET r == scoreIndividualItem(allItems[i], reply)
       IN IF r.ok
          THEN /\ scoredItems' = ResolveAt(scoredItems, i, r.v)
               /\ answers' = [answers EXCEPT ![i] = Answer(reply)]
               /\ settled' = settled \cup {i}
               /\ UNCHANGED <<pc, error, result>>
          ELSE /\ Throw(Wrapped(UpstreamError))
               /\ UNCHANGED <<scoredItems, answers, settled>>
    /\ UNCHANGED <<sourceRead, analysisHow, apiKey, userText, sourceFilePath, options, sourceText, userContext,
                   extractedContent, extractHow, allItems, scoredContent, callLog>>
    /\ UNCHANGED <<dedupVars, researchVars, sideVars>>

\* Promise.all resolves; ranking; generateUsageRecommendations returns its
\* fixed guidance or issues its call
Join ==
    /\ pc = "scoring"
    /\ AllSettled(allItems, settled)
    /\ LET sc == SplitByType(scoredItems)
           relevantStats == Rank(sc.statistics, options.relevanceThreshold, options.maxStats)
           relevantQuotes == Rank(sc.quotes, options.relevanceThreshold, options.maxQuotes)
           partial == [userContext |-> userContext,
                       statistics |-> relevantStats,
                       quotes |-> relevantQuotes,
                       sourceInfo |-> [file |-> sourceFilePath,
                                       totalStatsFound |-> Len(extractedContent.statistics),
                                       totalQuotesFound |-> Len(extractedContent.quotes),
                                       relevantStatsCount |-> Len(relevantStats),
                                       relevantQuotesCount |-> Len(relevantQuotes)]]
       IN /\ scoredContent' = sc
          /\ IF NothingToRecommend(relevantStats, relevantQuotes)
             THEN /\ result' = [recommendations |-> FixedGuidance] @@ partial
                  /\ pc' = "returned"
                  /\ UNCHANGED callLog
             ELSE /\ result' = partial
                  /\ callLog' = Append(callLog, "recommend")
                  /\ pc' = "recommending"
    /\ UNCHANGED <<sourceRead, analysisHow, apiKey, userText, sourceFilePath, options, sourceText, userContext,
                   extractedContent, extractHow, allItems, settled, scoredItems, answers,
                   error>>
    /\ UNCHANGED <<dedupVars, researchVars, sideVars>>

\* the call of generateUsageRecommendations settles
RecommendReply(reply) ==
    /\ pc = "recommending"
    /\ IF reply.status = "ok"
       THEN /\ result' = [recommendations |-> reply.text] @@ result
            /\ pc' = "returned"
            /\ UNCHANGED error
       ELSE Throw(Wrapped(IF reply.status = "rejected" THEN UpstreamError ELSE TypeError))
    /\ UNCHANGED <<sourceRead, analysisHow, apiKey, userText, sourceFilePath, options, sourceText, userContext,
                   extractedContent, extractHow, allItems, settled, scoredItems,
                   answers, scoredContent, callLog>>
    /\ UNCHANGED <<dedupVars, researchVars, sideVars>>

Next ==
    \/ Start
    \/ ReadDone
    \/ \E reply \in AnalysisReplies : AnalyzeReply(reply)
    \/ \E reply \in ExtractionReplies : ExtractReply(reply)
    \/ \E i \in 1..Len(allItems), reply \in ScoreReplies : ScoreReply(i, reply)
    \/ Join
    \/ \E reply \in RecommendationReplies : RecommendReply(reply)

Spec == Init /\ [][Next]_vars

----------------------------------------------------------------------------
(* The ranking step on its own: the pipeline from the moment every scoring   *)
(* call has settled, for any scores, any threshold and any maximum.          *)

RankScores == {3, 6, 9}
RankThresholds == {2, 6, 9}
RankMaxima == (-1)..MaxCap

\* the candidates of an extraction with ns statistics and nq quotes, scored by f
ScoredBy(ns, nq, f) ==
    LET items == TypedItems([statistics |-> GenItems(StatisticTexts, ns),
                             quotes |-> GenItems(QuoteTexts, nq)])
    IN [i \in 1..(ns + nq) |-> WithRelevance(items[i], f[i], "supports the main argument")]

InitRank ==
    /\ pc = "scoring"
    /\ apiKey = TRUE
    /\ userText = "I am writing about UI accessibility preferences."
    /\ sourceFilePath = "report.txt"
    /\ options \in [maxStats : RankMaxima, maxQuotes : RankMaxima,
                    relevanceThreshold : RankThresholds]
    /\ sourceText = <<Pct, Prose>>
    /\ sourceRead = TRUE
    /\ userContext = Placeholder("Could not determine main argument")
    /\ analysisHow = "noobject"
    /\ extractHow = "parsed"
    /\ \E ns \in 0..MaxScored, nq \in 0..MaxScored :
         /\ ns + nq >= 1
         /\ ns + nq <= MaxScored
         /\ extractedContent = [statistics |-> GenItems(StatisticTexts, ns),
                                quotes |-> GenItems(QuoteTexts, nq)]
         /\ allItems = TypedItems(extractedContent)
         /\ settled = 1..(ns + nq)
         /\ \E f \in [1..(ns + nq) -> RankScores] :
              /\ scoredItems = ScoredBy(ns, nq, f)
              /\ answers = [i \in 1..(ns + nq) |-> [kind |-> "object", score |-> f[i]]]
         /\ callLog = <<"analyze", "extract">> \o [i \in 1..(ns + nq) |-> "score"]
    /\ scoredContent = EmptyObject
    /\ result = EmptyObject
    /\ error = <<>>
    /\ papers = <<>>
    /\ cursor = 0
    /\ unique = <<>>
    /\ keptAt = <<>>
    /\ seenTitles = {}
    /\ seenDOIs = {}
    /\ ResearchUnused
    /\ SidesUnused

NextRank ==
    \/ Join
    \/ \E reply \in RecommendationReplies : RecommendReply(reply)

SpecRank == InitRank /\ [][NextRank]_vars

----------------------------------------------------------------------------
(* removeDuplicatePapers *)

\* titles are sequences of characters
LowerCase(c) == CASE c = "A" -> "a" [] c = "B" -> "b" [] OTHER -> c
IsWordChar(c) == c \in {"a", "b", "A", "B", "1", "_"}
IsSpace(c) == c = " "

\* .replace(/[^\w\s]/g, '')
StripNonWord(cs) == SelectSeq(cs, LAMBDA c : IsWordChar(c) \/ IsSpace(c))

\* .trim()
RECURSIVE TrimLeft(_)
TrimLeft(cs) == IF cs # <<>> /\ IsSpace(Head(cs)) THEN TrimLeft(Tail(cs)) ELSE cs
RECURSIVE TrimRight(_)
TrimRight(cs) ==
    IF cs # <<>> /\ IsSpace(cs[Len(cs)]) THEN TrimRight(SubSeq(cs, 1, Len(cs) - 1)) ELSE cs
Trim(cs) == TrimRight(TrimLeft(cs))

\* paper.title.toLowerCase().replace(/[^\w\s]/g, '').trim()
NormalizeTitle(title) == Trim(StripNonWord([i \in 1..Len(title) |-> LowerCase(title[i])]))

PaperTitles ==
    { <<"A", "b">>, <<" ", "a", "b", "!">>, <<"a", " ", "b">>, <<"B", "a", ":", "1">> }
PaperDOIs == {"", "10.1000/x", "10.1000/y"}

\* the lists a search may hand over; url tells the entries apart
PaperLists ==
    UNION {[1..n -> PaperTitles \X PaperDOIs] : n \in 0..MaxPapers}

AsPapers(l) == [i \in 1..Len(l) |-> [title |-> l[i][1], doi |-> l[i][2], url |-> i]]

InitDedup ==
    /\ pc = "idle"
    /\ apiKey = TRUE
    /\ userText = ""
    /\ sourceFilePath = ""
    /\ options = WithDefaults(EmptyObject)
    /\ sourceText = <<>>
    /\ sourceRead = FALSE
    /\ userContext = EmptyObject
    /\ analysisHow = "none"
    /\ extractedContent = EmptyObject
    /\ extractHow = "none"
    /\ allItems = <<>>
    /\ settled = {}
    /\ scoredItems = <<>>
    /\ answers = <<>>
    /\ scoredContent = EmptyObject
    /\ result = EmptyObject
    /\ error = <<>>
    /\ callLog = <<>>
    /\ papers \in {AsPapers(l) : l \in PaperLists}
    /\ cursor = 0
    /\ unique = <<>>
    /\ keptAt = <<>>
    /\ seenTitles = {}
    /\ seenDOIs = {}
    /\ ResearchUnused
    /\ SidesUnused

\* every paper after the first kept one counts as a duplicate
IsDuplicateAfterFirst(doi, normalizedTitle, dois, titles) == titles # {}

\* the two tests that end an iteration with continue
IsDuplicate(doi, normalizedTitle, dois, titles) ==
    (doi # "" /\ doi \in dois) \/ normalizedTitle \in titles

\* one iteration of the for loop
DedupStep ==
    /\ cursor < Len(papers)
    /\ LET paper == papers[cursor + 1]
           normalizedTitle == NormalizeTitle(paper.title)
           doi == paper.doi
       IN /\ cursor' = cursor + 1
          /\ IF IsDuplicate(doi, normalizedTitle, seenDOIs, seenTitles)
             THEN UNCHANGED <<unique, keptAt, seenTitles, seenDOIs>>
             ELSE /\ seenDOIs' = IF doi # "" THEN seenDOIs \cup {doi} ELSE seenDOIs
                  /\ seenTitles' = seenTitles \cup {normalizedTitle}
                  /\ unique' = Append(unique, paper)
                  /\ keptAt' = Append(keptAt, cursor + 1)
    /\ UNCHANGED papers
    /\ UNCHANGED <<pipelineVars, researchVars, sideVars>>

NextDedup == DedupStep

SpecDedup == InitDedup /\ [][NextDedup]_vars

----------------------------------------------------------------------------
(* The research finder: user texts and topic extraction                     *)

DefaultMaxPapers == 3
SourceCount == 3
TopicsPerSource == 2
MaxResultsPerQuery == 10
FallbackTopicCap == 5
FallbackWordCap == 3
TopicLengthOver == 2
NoDigitsScore == 5
UnavailableScore == 5

\* A user text of the research finder is a sequence of whitespace, words,
\* capitalized words of five letters or more (v is the word in lower case)
\* and occurrences of a term of humanitiesTerms
SP == [k |-> "space"]
Word(s) == [k |-> "word", v |-> s]
Capitalized(s) == [k |-> "capitalized", v |-> s]
TermIn(s) == [k |-> "term", v |-> s]

ResearchTexts ==
    { <<>>,
      <<SP, SP>>,
      <<Word("why"), SP, Word("stories"), SP, Word("matter")>>,
      <<Capitalized("memory"), SP, TermIn("postcolonial literature"), SP,
        Capitalized("trauma"), SP, TermIn("narrative theory"), SP,
        Capitalized("memory"), SP, Capitalized("francophone"), SP,
        Capitalized("anglophone"), SP, TermIn("memory studies")>> }

\* !userText, with no trim() in the second test
ValidUserTextNoTrim(text) == text # <<>>

\* !(!userText || typeof userText !== 'string' || userText.trim().length === 0)
ValidUserText(text) == text # <<>> /\ \E i \in 1..Len(text) : text[i] # SP

\* some of humanitiesTerms, in the order of the list
HumanitiesTerms ==
    <<"narrative theory", "postcolonial literature", "modernism", "cultural identity",
      "memory studies">>

\* the entries of s at the indices in I, in order
Pick(s, I) ==
    LET kept == SelectSeq([i \in 1..Len(s) |-> <<i, s[i]>>], LAMBDA p : p[1] \in I)
    IN [i \in 1..Len(kept) |-> kept[i][2]]

\* [...new Set(words)]
UniqueWords(words) ==
    Pick(words, {i \in 1..Len(words) : \A j \in 1..(i - 1) : words[j] # words[i]})

extractHumanitiesFallbackTopics(text) ==
    LET present == {text[i].v : i \in {j \in 1..Len(text) : text[j].k = "term"}}
        foundTerms == SelectSeq(HumanitiesTerms, LAMBDA t : t \in present)
        caps == SelectSeq(text, LAMBDA tok : tok.k = "capitalized")
        words == [i \in 1..Len(caps) |-> caps[i].v]
    IN SliceTo(foundTerms \o SliceTo(UniqueWords(words), FallbackWordCap), FallbackTopicCap)

\* A topic-extraction reply is a sequence of brackets, newlines, whitespace,
\* bullets at the start of a line, runs of other characters, and lists of
\* quoted strings separated by commas (v holds the strings)
LBK == [k |-> "lbracket"]
RBK == [k |-> "rbracket"]
NL == [k |-> "newline"]
Bullet == [k |-> "bullet"]
Chars(s) == [k |-> "chars", v |-> s]
Elements(v) == [k |-> "elements", v |-> v]

\* content.match(/\[.*?\]/s): from the first left bracket to the first right
\* bracket behind it
MatchLazyArray(toks) ==
    LET opens == {i \in 1..Len(toks) : toks[i] = LBK}
        i0 == IF opens = {} THEN 0 ELSE CHOOSE i \in opens : \A j \in opens : i <= j
        closes == {j \in 1..Len(toks) : toks[j] = RBK /\ j > i0}
    IN IF i0 = 0 \/ closes = {} THEN <<>>
       ELSE SubSeq(toks, i0, CHOOSE j \in closes : \A l \in closes : j <= l)

\* JSON.parse of a matched span: brackets around nothing or around one list
\* of strings, whitespace anywhere; anything else makes it throw (ok = FALSE)
ParseArray(m) ==
    LET inner == SelectSeq(SubSeq(m, 2, Len(m) - 1), LAMBDA tok : tok.k \notin {"space", "newline"})
    IN IF inner = <<>> THEN [ok |-> TRUE, v |-> <<>>]
       ELSE IF Len(inner) = 1 /\ inner[1].k = "elements" THEN [ok |-> TRUE, v |-> inner[1].v]
       ELSE [ok |-> FALSE, v |-> <<>>]

\* content.split('\n')
RECURSIVE SplitLines(_)
SplitLines(toks) ==
    LET breaks == {i \in 1..Len(toks) : toks[i] = NL}
    IN IF breaks = {} THEN <<toks>>
       ELSE LET b == CHOOSE i \in breaks : \A j \in breaks : i <= j
            IN <<SubSeq(toks, 1, b - 1)>> \o SplitLines(SubSeq(toks, b + 1, Len(toks)))

RECURSIVE DropSpaces(_)
DropSpaces(line) == IF line # <<>> /\ Head(line) = SP THEN DropSpaces(Tail(line)) ELSE line

RECURSIVE DropSpacesAtEnd(_)
DropSpacesAtEnd(line) ==
    IF line # <<>> /\ line[Len(line)] = SP THEN DropSpacesAtEnd(SubSeq(line, 1, Len(line) - 1))
    ELSE line

RECURSIVE JoinStrings(_, _)
JoinStrings(strings, sep) ==
    IF strings = <<>> THEN ""
    ELSE IF Len(strings) = 1 THEN strings[1]
    ELSE strings[1] \o sep \o JoinStrings(Tail(strings), sep)

\* the characters of a token once quotes and brackets are removed
TokenText(tok) ==
    CASE tok.k = "chars" -> tok.v
      [] tok.k = "space" -> " "
      [] tok.k = "bullet" -> "-"
      [] tok.k = "elements" -> JoinStrings(tok.v, ", ")
      [] OTHER -> ""

\* line.replace(/^[-*•]\s*/, '').replace(/["\[\]]/g, '').trim()
CleanLine(line) ==
    LET unbulleted == IF line # <<>> /\ Head(line) = Bullet THEN DropSpaces(Tail(line)) ELSE line
        trimmed == DropSpacesAtEnd(DropSpaces(
                       SelectSeq(unbulleted, LAMBDA tok : tok.k \notin {"lbracket", "rbracket"})))
    IN JoinStrings([i \in 1..Len(trimmed) |-> TokenText(trimmed[i])], "")

\* the fallback parsing of a reply that holds no bracketed span
LineTopics(toks) ==
    LET lines == SplitLines(toks)
        cleaned == [i \in 1..Len(lines) |-> CleanLine(lines[i])]
    IN SliceTo(SelectSeq(cleaned, LAMBDA topic : Len(topic) > TopicLengthOver), FallbackTopicCap)

TopicReplyTexts ==
    { <<LBK, Elements(<<"narrative theory", "memory studies", "trauma theory">>), RBK>>,
      <<Chars("Here are the topics:"), NL, LBK, Elements(<<"postcolonial literature">>), RBK>>,
      <<LBK, RBK>>,
      <<LBK, Chars("memory, trauma"), RBK>>,
      <<LBK, LBK, Elements(<<"memory studies">>), RBK, RBK>>,
      <<Bullet, SP, Chars("narrative theory"), NL,
        Bullet, Chars("memory studies"), SP, NL,
        Chars("ok"), NL,
        SP, Chars("trauma theory"), NL,
        Bullet, SP, Elements(<<"collective memory">>), NL,
        Bullet, SP, Chars("cultural identity"), NL,
        Bullet, SP, Chars("diaspora studies")>>,
      <<>>,
      <<Chars("ok")>> }

TopicReplies == {Reply(t) : t \in TopicReplyTexts} \cup {Rejected, NoContent}

\* the inner try block of getRelevantHumanitiesArticles after its Completion
\* call resolved with reply: topics, and the branch that gave it
extractTopics(text, reply) ==
    IF reply.status = "nocontent"
    THEN [how |-> "fallback", v |-> extractHumanitiesFallbackTopics(text)]
    ELSE LET jsonMatch == MatchLazyArray(reply.text)
         IN IF jsonMatch = <<>>
            THEN [how |-> "lines", v |-> LineTopics(reply.text)]
            ELSE IF ParseArray(jsonMatch).ok
                 THEN [how |-> "parsed", v |-> ParseArray(jsonMatch).v]
                 ELSE [how |-> "fallback", v |-> extractHumanitiesFallbackTopics(text)]

----------------------------------------------------------------------------
(* The research finder: the three sources                                   *)

Sources == 1..SourceCount
SourceName(s) == CASE s = 1 -> "arXiv" [] s = 2 -> "DOAJ" [] OTHER -> "Semantic Scholar"

\* Math.ceil(maxPapers / 3)
papersPerSource(max) == -((-max) \div SourceCount)

\* every topic, not the first two
AllTopics(ts) == ts

\* topics.slice(0, 2)
UsedTopics(ts) == SliceTo(ts, TopicsPerSource)

\* the request a source sends for a topic
Query(s, topic, perSource) ==
    [source |-> SourceName(s), topic |-> topic,
     limit |-> Min2(perSource, MaxResultsPerQuery)]

\* the requests a source has sent once it has gone through its topics
QueriesOf(s, ts, perSource) ==
    [k \in 1..Len(UsedTopics(ts)) |-> Query(s, UsedTopics(ts)[k], perSource)]

\* What the indices hold: for source s and its k-th request, the papers the
\* loop over the response pushes (title and url present, filter passed).
\* The DOAJ title is the arXiv title in another case; Semantic Scholar
\* papers carry no DOI.
Catalogue(s, k) ==
    CASE s = 1 /\ k = 1 ->
           <<[title |-> <<"A", "b">>, doi |-> "10.48550/arXiv.1", url |-> "arxiv.org/abs/1"]>>
      [] s = 2 /\ k = 1 ->
           <<[title |-> <<"a", "b">>, doi |-> "10.1000/x", url |-> "doaj.org/article/1"]>>
      [] s = 3 /\ k = 1 ->
           <<[title |-> <<"a", " ", "b">>, doi |-> "", url |-> "semanticscholar.org/paper/1"]>>
      [] s = 3 /\ k = 2 ->
           <<[title |-> <<"B", "a", ":", "1">>, doi |-> "", url |-> "semanticscholar.org/paper/2"]>>
      [] OTHER -> <<>>

\* the request threw (network error, timeout, status code)
Failed == [ok |-> FALSE, papers |-> <<>>]
Answered(ps) == [ok |-> TRUE, papers |-> ps]

\* const paper = { ..., source, relevantTopic: topic, ... }
Paper(entry, s, topic) == [source |-> SourceName(s), relevantTopic |-> topic] @@ entry

\* the answers the k-th request of source s may get
AnswersTo(s, k, topic) ==
    {Failed} \cup
    {Answered([i \in 1..n |-> Paper(Catalogue(s, k)[i], s, topic)]) :
        n \in 0..Len(Catalogue(s, k))}

\* the answers the requests of source s may get, one for each topic it uses
SourceAnswers(s, used) ==
    CASE Len(used) = 0 -> {<<>>}
      [] Len(used) = 1 -> {<<a>> : a \in AnswersTo(s, 1, used[1])}
      [] OTHER -> {<<a, b>> : a \in AnswersTo(s, 1, used[1]), b \in AnswersTo(s, 2, used[2])}

NotSettled == [status |-> "pending", value |-> <<>>]

\* a source function without the try block around each request
searchSourceNoCatch(given) ==
    IF \E k \in 1..Len(given) : ~given[k].ok
    THEN [status |-> "rejected", value |-> <<>>]
    ELSE [status |-> "fulfilled",
          value |-> Concat([k \in 1..Len(given) |-> given[k].papers])]

\* searchArXivHumanities, searchDoaj, searchSemanticScholar: what the promise
\* settles with, given the given to its requests
searchSource(given) ==
    [status |-> "fulfilled",
     value |-> Concat([k \in 1..Len(given) |->
                          IF given[k].ok THEN given[k].papers ELSE <<>>])]

\* results.forEach(...): allPapers
allPapers(results) ==
    Concat([s \in 1..Len(results) |->
               IF results[s].status = "fulfilled" THEN results[s].value ELSE <<>>])

----------------------------------------------------------------------------
(* The research finder: re-scoring                                          *)

\* A re-scoring reply is a sequence of runs of digits (v is the number), the
\* separators ". - :", whitespace and runs of other characters
Digits(n) == [k |-> "digits", v |-> n]
Separator == [k |-> "separator"]

RescoreReplyTexts ==
    { <<Digits(7), Separator, SP, Chars("Close to the user's framework.")>>,
      <<Chars("Relevance:"), SP, Digits(8), Chars("/"), Digits(10)>>,
      <<Chars("Not relevant to the humanities.")>>,
      <<Digits(0), SP, Chars("of"), SP, Digits(10)>>,
      <<Digits(15), Separator>> }

RescoreReplies == {Reply(t) : t \in RescoreReplyTexts} \cup {Rejected, NoContent}

\* analysis.match(/(\d+)/) and parseInt
FirstNumber(toks) ==
    LET at == {i \in 1..Len(toks) : toks[i].k = "digits"}
    IN IF at = {} THEN [found |-> FALSE, n |-> 0]
       ELSE [found |-> TRUE, n |-> toks[CHOOSE i \in at : \A j \in at : i <= j].v]

\* analysis.replace(/^\d+[.\-:]\s*/, '').trim()
WithoutLeadingNumber(toks) ==
    DropSpacesAtEnd(DropSpaces(
        IF Len(toks) >= 2 /\ toks[1].k = "digits" /\ toks[2] = Separator
        THEN DropSpaces(SubSeq(toks, 3, Len(toks)))
        ELSE toks))

WithAnalysis(paper, score, analysis) ==
    [relevanceScore |-> score, relevanceAnalysis |-> analysis] @@ paper

\* a default of zero for a paper whose analysis failed
UnavailableZero(paper) == WithAnalysis(paper, 0, <<Chars("Analysis unavailable")>>)

\* the catch block of the analysis of one paper
Unavailable(paper) == WithAnalysis(paper, UnavailableScore, <<Chars("Analysis unavailable")>>)

\* one of analysisPromises after its Completion call settled with reply
analyzePaper(paper, reply) ==
    IF reply.status # "ok"
    THEN Unavailable(paper)
    ELSE LET scoreMatch == FirstNumber(reply.text)
         IN WithAnalysis(paper, IF scoreMatch.found THEN scoreMatch.n ELSE NoDigitsScore,
                         WithoutLeadingNumber(reply.text))

\* History of a re-scoring call: pending; failed, when the call rejected or
\* its reply has no text; else whether the text holds a number, and the first
NoVerdict == [kind |-> "pending", score |-> 0]
Verdict(reply) ==
    IF reply.status # "ok" THEN [kind |-> "failed", score |-> 0]
    ELSE IF \E i \in 1..Len(reply.text) : reply.text[i].k = "digits"
         THEN [kind |-> "number", score |-> FirstNumber(reply.text).n]
         ELSE [kind |-> "nonumber", score |-> 0]

\* analyzedPapers.sort(...) without the slice
TopPapersUncut(analyzed, max) == SortByScore(analyzed)

\* analyzedPapers.sort((a, b) => b.relevanceScore - a.relevanceScore).slice(0, maxPapers)
TopPapers(analyzed, max) == SliceTo(SortByScore(analyzed), max)

----------------------------------------------------------------------------
(* getRelevantHumanitiesArticles and getRelevantHumanitiesArticlesWithAnalysis *)

MaxPapersChoices == {-1, 0, 1, DefaultMaxPapers, SourceCount * MaxResultsPerQuery + 1}

\* the maxPapers getRelevantHumanitiesArticles is called with
Requested == IF withAnalysis THEN maxPapers * 2 ELSE maxPapers

\* the catch block of getRelevantHumanitiesArticlesWithAnalysis
OuterWrap(message) ==
    IF withAnalysis THEN <<"Humanities analysis-enhanced search failed">> \o message
    ELSE message

\* the catch block of getRelevantHumanitiesArticles, then the outer one
BaseWrap(message) == OuterWrap(<<"Failed to get relevant humanities articles">> \o message)

ResearchThrow(message) ==
    /\ rpc' = "threw"
    /\ researchError' = message

\* the quote finder is not invoked
QuotesUnused ==
    /\ pc = "unused"
    /\ userText = ""
    /\ sourceFilePath = ""
    /\ options = WithDefaults(EmptyObject)
    /\ sourceText = <<>>
    /\ sourceRead = FALSE
    /\ userContext = EmptyObject
    /\ analysisHow = "none"
    /\ extractedContent = EmptyObject
    /\ extractHow = "none"
    /\ allItems = <<>>
    /\ settled = {}
    /\ scoredItems = <<>>
    /\ answers = <<>>
    /\ scoredContent = EmptyObject
    /\ result = EmptyObject
    /\ error = <<>>
    /\ callLog = <<>>

InitResearch ==
    /\ QuotesUnused
    /\ SidesUnused
    /\ apiKey \in BOOLEAN
    /\ papers = <<>>
    /\ cursor = 0
    /\ unique = <<>>
    /\ keptAt = <<>>
    /\ seenTitles = {}
    /\ seenDOIs = {}
    /\ rpc = "idle"
    /\ withAnalysis \in BOOLEAN
    /\ researchText \in ResearchTexts
    /\ maxPapers \in MaxPapersChoices
    /\ topics = <<>>
    /\ topicsHow = "none"
    /\ queries = <<>>
    /\ responses = <<>>
    /\ found = <<>>
    /\ analyzedPapers = <<>>
    /\ rescored = {}
    /\ verdicts = <<>>
    /\ researchCalls = <<>>
    /\ articles = <<>>
    /\ researchError = <<>>

\* the checks of the entry point and of getRelevantHumanitiesArticles, up to
\* the topic-extraction call
ResearchStart ==
    /\ rpc = "idle"
    /\ IF ~apiKey
       THEN /\ ResearchThrow(<<"ANTHROPIC_API_KEY environment variable is required">>)
            /\ UNCHANGED researchCalls
       ELSE IF ~ValidUserText(researchText)
            THEN /\ ResearchThrow(OuterWrap(<<"Valid user text is required">>))
                 /\ UNCHANGED researchCalls
            ELSE /\ rpc' = "topics"
                 /\ researchCalls' = Append(researchCalls, "topics")
                 /\ UNCHANGED researchError
    /\ UNCHANGED <<withAnalysis, researchText, maxPapers, topics, topicsHow, queries,
                   responses, found, analyzedPapers, rescored, verdicts, articles>>
    /\ UNCHANGED <<pipelineVars, dedupVars, sideVars>>

\* the topic-extraction call settles; with topics, searchMultipleHumanitiesSources
\* starts the three sources, each sending its first request
TopicsReply(reply) ==
    /\ rpc = "topics"
    /\ IF reply.status = "rejected"
       THEN /\ ResearchThrow(BaseWrap(UpstreamError))
            /\ UNCHANGED <<topics, topicsHow, queries, responses, found>>
       ELSE LET r == extractTopics(researchText, reply)
            IN /\ topics' = r.v
               /\ topicsHow' = r.how
               /\ IF Len(r.v) = 0
                  THEN /\ ResearchThrow(BaseWrap(
                            <<"No humanities research topics could be extracted from the text">>))
                       /\ UNCHANGED <<queries, responses, found>>
                  ELSE /\ queries' = [s \in Sources |->
                                         <<Query(s, r.v[1], papersPerSource(Requested))>>]
                       /\ responses' = [s \in Sources |-> <<>>]
                       /\ found' = [s \in Sources |-> NotSettled]
                       /\ rpc' = "searching"
                       /\ UNCHANGED researchError
    /\ UNCHANGED <<withAnalysis, researchText, maxPapers, analyzedPapers, rescored,
                   verdicts, researchCalls, articles>>
    /\ UNCHANGED <<pipelineVars, dedupVars, sideVars>>

\* source s has gone through its topics and its promise settles
SourceSettles(s, given) ==
    /\ rpc = "searching"
    /\ found[s].status = "pending"
    /\ given \in SourceAnswers(s, UsedTopics(topics))
    /\ responses' = [responses EXCEPT ![s] = given]
    /\ found' = [found EXCEPT ![s] = searchSource(given)]
    /\ queries' = [queries EXCEPT ![s] = QueriesOf(s, topics, papersPerSource(Requested))]
    /\ UNCHANGED <<rpc, withAnalysis, researchText, maxPapers, topics, topicsHow,
                   analyzedPapers, rescored, verdicts, researchCalls, articles,
                   researchError>>
    /\ UNCHANGED <<pipelineVars, dedupVars, sideVars>>

\* Promise.allSettled resolves; allPapers is handed to removeDuplicatePapers
Merge ==
    /\ rpc = "searching"
    /\ \A s \in Sources : found[s].status # "pending"
    /\ papers' = allPapers(found)
    /\ cursor' = 0
    /\ unique' = <<>>
    /\ keptAt' = <<>>
    /\ seenTitles' = {}
    /\ seenDOIs' = {}
    /\ rpc' = "deduplicating"
    /\ UNCHANGED <<withAnalysis, researchText, maxPapers, topics, topicsHow, queries,
                   responses, found, analyzedPapers, rescored, verdicts, researchCalls,
                   articles, researchError>>
    /\ UNCHANGED <<pipelineVars, sideVars>>

\* removeDuplicatePapers has returned: searchMultipleHumanitiesSources and
\* getRelevantHumanitiesArticles return the slice, and with analysis one
\* re-scoring call is issued for every paper of it
Deliver ==
    /\ rpc = "deduplicating"
    /\ cursor = Len(papers)
    /\ LET list == SliceTo(unique, Requested)
       IN IF ~withAnalysis \/ Len(list) = 0
          THEN /\ articles' = list
               /\ rpc' = "returned"
               /\ UNCHANGED <<analyzedPapers, verdicts, researchCalls>>
          ELSE /\ analyzedPapers' = list
               /\ verdicts' = [i \in 1..Len(list) |-> NoVerdict]
               /\ researchCalls' = researchCalls \o [i \in 1..Len(list) |-> "rescore"]
               /\ rpc' = "rescoring"
               /\ UNCHANGED articles
    /\ responses' = <<>>
    /\ found' = <<>>
    /\ UNCHANGED <<withAnalysis, researchText, maxPapers, topics, topicsHow, queries,
                   rescored, researchError>>
    /\ UNCHANGED <<pipelineVars, dedupVars, sideVars>>

\* the re-scoring call of paper i settles, in any order among the pending ones
RescoreReply(i, reply) ==
    /\ rpc = "rescoring"
    /\ i \in (1..Len(analyzedPapers)) \ rescored
    /\ analyzedPapers' = ResolveAt(analyzedPapers, i, analyzePaper(analyzedPapers[i], reply))
    /\ verdicts' = [verdicts EXCEPT ![i] = Verdict(reply)]
    /\ rescored' = rescored \cup {i}
    /\ UNCHANGED <<rpc, withAnalysis, researchText, maxPapers, topics, topicsHow, queries,
                   responses, found, researchCalls, articles, researchError>>
    /\ UNCHANGED <<pipelineVars, dedupVars, sideVars>>

\* Promise.all resolves; the sorted papers are cut to maxPapers and returned
AnalysisJoin ==
    /\ rpc = "rescoring"
    /\ AllSettled(analyzedPapers, rescored)
    /\ articles' = TopPapers(analyzedPapers, maxPapers)
    /\ rpc' = "returned"
    /\ UNCHANGED <<withAnalysis, researchText, maxPapers, topics, topicsHow, queries,
                   responses, found, analyzedPapers, rescored, verdicts, researchCalls,
                   researchError>>
    /\ UNCHANGED <<pipelineVars, dedupVars, sideVars>>

NextResearch ==
    \/ ResearchStart
    \/ \E reply \in TopicReplies : TopicsReply(reply)
    \/ \E s \in Sources : \E given \in SourceAnswers(s, UsedTopics(topics)) : SourceSettles(s, given)
    \/ Merge
    \/ DedupStep
    \/ Deliver
    \/ \E i \in 1..Len(analyzedPapers), reply \in RescoreReplies : RescoreReply(i, reply)
    \/ AnalysisJoin

SpecResearch == InitResearch /\ [][NextResearch]_vars

\* either entry point is invoked
SpecEither == (Init \/ InitResearch) /\ [][Next \/ NextResearch]_vars

----------------------------------------------------------------------------
(* readSourceFile on its own                                                *)

CsvLineCap == 100

\* A file is a sequence of lines and a line a sequence of tokens: the tokens
\* of a Completion reply, a JSON string literal, a row of a table, and the
\* characters of a string that stands outside quotes.
STR(s) == [k |-> "string", v |-> s]
ROW(i) == [k |-> "row", n |-> i]
RAW(s) == [k |-> "raw", v |-> s]

Rows(n) == [i \in 1..n |-> <<ROW(i)>>]

Report == [title |-> "Annual report", year |-> "2024"]

\* base name and extension as written
FilePaths ==
    {<<"notes", ".txt">>, <<"README", ".md">>, <<"data", ".json">>,
     <<"DATA", ".JSON">>, <<"table", ".csv">>, <<"TABLE", ".CSV">>,
     <<"paper", ".pdf">>, <<"Makefile", "">>}

FileContents ==
    {<< <<>> >>,
     << <<TXT>>, <<TXT>> >>,
     << <<STR("a report in one string")>> >>,
     << <<LB, MEM(Report), RB>> >>,
     << <<LB>>, <<MEM(Report)>>, <<RB>> >>,
     << <<LB, RB>>, <<>> >>,
     << <<LB, MEM(Report)>> >>,
     << <<LB, TXT, RB>> >>,
     Rows(1), Rows(CsvLineCap - 1), Rows(CsvLineCap), Rows(CsvLineCap + 1),
     Rows(CsvLineCap + 50)}

\* path.extname(filePath).toLowerCase()
fileExtension(path) ==
    CASE path[2] = ".JSON" -> ".json"
      [] path[2] = ".CSV" -> ".csv"
      [] OTHER -> path[2]

\* JSON.parse of tokens: a string literal, or an object
parseTokens(toks) ==
    IF Len(toks) = 1 /\ toks[1].k = "string"
    THEN [ok |-> TRUE, root |-> "string", v |-> toks[1].v]
    ELSE [ok |-> JSONParse(toks).ok, root |-> "object", v |-> JSONParse(toks).v]

\* JSON.parse(fileContent): line ends are white space; a row of a table is
\* no JSON token
parseDocument(content) ==
    IF \E i \in 1..Len(content) : \E j \in 1..Len(content[i]) : content[i][j].k = "row"
    THEN [ok |-> FALSE, root |-> "object", v |-> EmptyObject]
    ELSE parseTokens(Concat(content))

\* JSON.stringify(jsonData, null, 2): an empty object on one line, any other
\* object with its members on lines of their own between the braces
Stringify(obj) ==
    IF obj = EmptyObject THEN << <<LB, RB>> >> ELSE << <<LB>>, <<MEM(obj)>>, <<RB>> >>

\* the .csv case without its slice
AllLines(lines) == lines

\* fileContent.split('\n').slice(0, 100).join('\n')
FirstLines(lines) == SliceTo(lines, CsvLineCap)

ReadOk(v) == [ok |-> TRUE, v |-> v, error |-> <<>>]
\* catch (error) { throw new Error(`Failed to read source file: ${error.message}`) }
ReadFailed(message) ==
    [ok |-> FALSE, v |-> <<>>, error |-> <<"Failed to read source file">> \o message]

readSourceFile(path, exists, content) ==
    IF ~exists THEN ReadFailed(<<"ENOENT">>)
    ELSE CASE fileExtension(path) \in {".txt", ".md"} -> ReadOk(content)
           [] fileExtension(path) = ".json" ->
                LET jsonData == parseDocument(content)
                IN IF ~jsonData.ok THEN ReadFailed(<<"Unexpected token">>)
                   ELSE IF jsonData.root = "string"
                        THEN ReadOk(<< <<RAW(jsonData.v)>> >>)
                        ELSE ReadOk(Stringify(jsonData.v))
           [] fileExtension(path) = ".csv" -> ReadOk(FirstLines(content))
           [] OTHER -> ReadOk(content)

InitRead ==
    /\ QuotesUnused
    /\ ResearchUnused
    /\ apiKey = TRUE
    /\ papers = <<>>
    /\ cursor = 0
    /\ unique = <<>>
    /\ keptAt = <<>>
    /\ seenTitles = {}
    /\ seenDOIs = {}
    /\ readPc = "idle"
    /\ filePath \in FilePaths
    /\ fileExists \in BOOLEAN
    /\ fileContent \in (IF fileExists THEN FileContents ELSE {<<>>})
    /\ readResult = <<>>
    /\ CacheUnused

ReadFile ==
    /\ readPc = "idle"
    /\ readPc' = "done"
    /\ readResult' = readSourceFile(filePath, fileExists, fileContent)
    /\ UNCHANGED <<filePath, fileExists, fileContent>>
    /\ UNCHANGED <<pipelineVars, dedupVars, researchVars, cacheVars>>

NextRead == ReadFile

SpecRead == InitRead /\ [][NextRead]_vars

----------------------------------------------------------------------------
(* The autocomplete route and its request cache                              *)

\* CACHE_EXPIRY, in seconds
CacheExpiry == 30
\* the seconds between two readings of the clock
TickSeconds == 10

\* A text is the sequence of the parts that its underscores separate: "a_b"
\* is <<"a", "b">> and the empty string is <<"">>. An absent context is <<>>.
Absent == <<>>

\* the bodies posted: the fields as the client wrote them
Body(text, tone, genre, structure, context) ==
    [text |-> text, tone |-> tone, purpose |-> "informative", genre |-> genre,
     structure |-> structure, context |-> context]

Bodies ==
    {Body(<<"hello">>, "casual", "email", <<"list">>, <<"x", "y">>),
     Body(<<"hello">>, "casual", "email", <<"list", "x">>, <<"y">>),
     Body(<<" hello">>, " Casual ", "email", <<"list">>, <<"x", "y">>),
     Body(<<"hello">>, "professional", "email", <<"list">>, Absent),
     Body(<<" ">>, "formal", "", <<"list">>, Absent)}

TONE_MODIFIERS == {"professional", "casual"}
GENRE_CONTEXT == {"email"}

\* s.trim().toLowerCase() of the strings the bodies hold
TrimLower(str) ==
    CASE str = " Casual " -> "casual"
      [] str = " hello" -> "hello"
      [] str = " " -> ""
      [] OTHER -> str

\* the arguments POST hands to generateAutocomplete
Normalized(data) ==
    [text |-> [i \in 1..Len(data.text) |-> TrimLower(data.text[i])],
     tone |-> TrimLower(data.tone),
     purpose |-> TrimLower(data.purpose),
     genre |-> TrimLower(data.genre),
     structure |-> [i \in 1..Len(data.structure) |-> TrimLower(data.structure[i])],
     context |-> [i \in 1..Len(data.context) |-> TrimLower(data.context[i])]]

\* the validation of POST: the status it answers with, 200 when it goes on
Validate(data) ==
    IF data.text = <<"">> \/ data.tone = "" \/ data.purpose = "" \/ data.genre = ""
       \/ data.structure = <<"">>
    THEN 400
    ELSE IF Normalized(data).text = <<"">> THEN 400
    ELSE IF Normalized(data).tone \notin TONE_MODIFIERS THEN 400
    ELSE IF Normalized(data).genre \notin GENRE_CONTEXT THEN 400
    ELSE 200

\* `${text}_${tone}_${purpose}_${genre}_${structure}_${context || ''}`, as
\* the parts that its underscores separate
cacheKey(in) ==
    in.text \o <<in.tone, in.purpose, in.genre>> \o in.structure
    \o (IF in.context = Absent THEN <<"">> ELSE in.context)

\* an entry that is good for 30 seconds and the one after
FreshThroughExpiry(entry, currentTime) == currentTime - entry.timestamp <= CacheExpiry

\* currentTime - cached.timestamp < CACHE_EXPIRY
Fresh(entry, currentTime) == currentTime - entry.timestamp < CacheExpiry

\* tokens of a completion: a quote character, "**", a run of "#"
QT == [k |-> "quote"]
BOLD == [k |-> "stars"]
HEAD == [k |-> "hashes"]

SuggestionReplies ==
    {Rejected, NoContent,
     Reply(<<SP, QT, Chars("and then we left"), QT>>),
     Reply(<<HEAD, SP, Chars("and then we left"), SP>>),
     Reply(<<BOLD, Chars("Summary"), BOLD>>)}

\* the chain of replace calls and the trims around it
cleanSuggestion(toks) ==
    LET trimmed == DropSpacesAtEnd(DropSpaces(toks))
        a == IF trimmed # <<>> /\ Head(trimmed) = QT THEN Tail(trimmed) ELSE trimmed
        b == IF a # <<>> /\ a[Len(a)] = QT THEN SubSeq(a, 1, Len(a) - 1) ELSE a
        c == IF Len(b) >= 2 /\ b[1] = BOLD /\ b[Len(b)] = BOLD THEN <<>> ELSE b
        d == IF Len(c) >= 2 /\ c[1] = HEAD /\ c[2] = SP THEN DropSpaces(Tail(c)) ELSE c
    IN DropSpacesAtEnd(DropSpaces(d))

\* requestCache.set(cacheKey, entry)
CacheSet(cache, key, entry) ==
    [k \in DOMAIN cache \cup {key} |-> IF k = key THEN entry ELSE cache[k]]

\* the forEach that deletes the entries as old as CACHE_EXPIRY
CleanOld(cache, currentTime) ==
    [k \in {j \in DOMAIN cache : currentTime - cache[j].timestamp < CacheExpiry} |-> cache[k]]

\* a request held while its upstream call is awaited, and once answered.
\* madeFor is the input whose completion the suggestion is.
Answered200(req, suggestion, madeFor) ==
    [req EXCEPT !.state = "answered", !.status = 200, !.suggestion = suggestion,
                !.madeFor = madeFor]

InitCache ==
    /\ QuotesUnused
    /\ ResearchUnused
    /\ ReadUnused
    /\ apiKey = TRUE
    /\ papers = <<>>
    /\ cursor = 0
    /\ unique = <<>>
    /\ keptAt = <<>>
    /\ seenTitles = {}
    /\ seenDOIs = {}
    /\ openaiKey \in BOOLEAN
    /\ clock = 0
    /\ requestCache = <<>>
    /\ requests = <<>>

\* POST receives a body: its checks, then generateAutocomplete up to the
\* return of a cached suggestion or to the await of the upstream call
Post(data) ==
    /\ Len(requests) < MaxRequests
    /\ LET in == Normalized(data)
           key == cacheKey(in)
           req == [input |-> in, key |-> key, currentTime |-> clock, calls |-> 0,
                   fromCache |-> FALSE, state |-> "answered", status |-> 200,
                   suggestion |-> <<>>, madeFor |-> in]
       IN requests' = Append(requests,
            IF ~openaiKey THEN [req EXCEPT !.status = 500]
            ELSE IF Validate(data) # 200 THEN [req EXCEPT !.status = Validate(data)]
            ELSE IF key \in DOMAIN requestCache /\ Fresh(requestCache[key], clock)
                 THEN [Answered200(req, requestCache[key].suggestion,
                                   requestCache[key].madeFor)
                          EXCEPT !.fromCache = TRUE]
                 ELSE [req EXCEPT !.state = "awaiting", !.calls = 1])
    /\ UNCHANGED <<openaiKey, clock, requestCache>>
    /\ UNCHANGED <<pipelineVars, dedupVars, researchVars, readVars>>

\* the upstream call of request r settles: the rest of generateAutocomplete
\* and of POST
UpstreamReply(r, reply) ==
    /\ r \in 1..Len(requests)
    /\ requests[r].state = "awaiting"
    /\ IF reply.status = "rejected"
       THEN /\ requests' = [requests EXCEPT ![r].state = "answered", ![r].status = 500]
            /\ UNCHANGED requestCache
       ELSE LET suggestion == cleanSuggestion(reply.text)
                entry == [suggestion |-> suggestion,
                          timestamp |-> requests[r].currentTime,
                          madeFor |-> requests[r].input]
            IN /\ requestCache' = CleanOld(CacheSet(requestCache, requests[r].key, entry),
                                           requests[r].currentTime)
               /\ requests' = [requests EXCEPT
                                  ![r] = Answered200(@, suggestion, requests[r].input)]
    /\ UNCHANGED <<openaiKey, clock>>
    /\ UNCHANGED <<pipelineVars, dedupVars, researchVars, readVars>>

\* time passes
Tick ==
    /\ clock + TickSeconds <= MaxTime
    /\ clock' = clock + TickSeconds
    /\ UNCHANGED <<openaiKey, requestCache, requests>>
    /\ UNCHANGED <<pipelineVars, dedupVars, researchVars, readVars>>

NextCache ==
    \/ \E data \in Bodies : Post(data)
    \/ \E r \in 1..MaxRequests, reply \in SuggestionReplies : UpstreamReply(r, reply)
    \/ Tick

SpecCache == InitCache /\ [][NextCache]_vars

----------------------------------------------------------------------------
(* Properties *)

\* the pipeline has ranked: result holds the ranked statistics and quotes
RankedResult == HasKey(result, "statistics") /\ ~HasKey(result, "message")

\* scoreContentRelevance has returned
Scored == HasKey(scoredContent, "statistics")

Issued(kind) == kind \in Range(callLog)

\* the fields of a candidate as the extractor returned it
AsExtracted(item) ==
    [text |-> item.text, context |-> item.context, source |-> item.source,
     position |-> item.position]

PosIn(seq, it) == CHOOSE i \in 1..Len(seq) : seq[i] = it

(* C1: whenever the extraction reply cannot be parsed into an object (it   *)
(* holds no JSON object, or a malformed one) and the source text has a      *)
(* statistic pattern match, the extracted candidates include a statistic    *)
(* whose source is "Pattern extraction".                                    *)
C1_FallbackOnUnparsableReply ==
    (extractHow \in {"nomatch", "fallback"} /\ HasStatMatch(sourceText))
        => \E i \in 1..Len(extractedContent.statistics) :
              extractedContent.statistics[i].source = "Pattern extraction"

(* C2: for a non-negative maximum, ranking with a higher threshold yields   *)
(* only items that ranking with a lower threshold yields too, for           *)
(* statistics and for quotes: the ranked result contains the ranking at     *)
(* every higher threshold and is contained in the ranking at every lower.   *)
C2_ThresholdMonotone ==
    RankedResult =>
        \A t \in RankThresholds :
            /\ options.maxStats >= 0 =>
                 /\ t > options.relevanceThreshold =>
                      Range(Rank(scoredContent.statistics, t, options.maxStats))
                          \subseteq Range(result.statistics)
                 /\ t < options.relevanceThreshold =>
                      Range(result.statistics)
                          \subseteq Range(Rank(scoredContent.statistics, t, options.maxStats))
            /\ options.maxQuotes >= 0 =>
                 /\ t > options.relevanceThreshold =>
                      Range(Rank(scoredContent.quotes, t, options.maxQuotes))
                          \subseteq Range(result.quotes)
                 /\ t < options.relevanceThreshold =>
                      Range(result.quotes)
                          \subseteq Range(Rank(scoredContent.quotes, t, options.maxQuotes))

\* a ranking that was truncated, and that a higher threshold shrinks to a
\* non-empty part of it
C2_Witness ==
    /\ RankedResult
    /\ options.maxStats >= 1
    /\ Len(FilterRelevant(scoredContent.statistics, options.relevanceThreshold))
         > options.maxStats
    /\ \E t \in RankThresholds :
         /\ t > options.relevanceThreshold
         /\ Rank(scoredContent.statistics, t, options.maxStats) # <<>>
         /\ Rank(scoredContent.statistics, t, options.maxStats) # result.statistics

SortedStable(out, inp) ==
    /\ Range(out) \subseteq Range(inp)
    /\ \A i, j \in 1..Len(out) :
         i < j =>
            /\ out[i].relevanceScore >= out[j].relevanceScore
            /\ out[i].relevanceScore = out[j].relevanceScore
                 => PosIn(inp, out[i]) < PosIn(inp, out[j])

(* C3: the ranked statistics and the ranked quotes are each in              *)
(* non-increasing order of relevanceScore, and items of equal score keep    *)
(* the order in which the extractor returned them.                          *)
C3_SortedStable ==
    RankedResult =>
        /\ SortedStable(result.statistics, scoredContent.statistics)
        /\ SortedStable(result.quotes, scoredContent.quotes)

\* the ranking moved a later candidate to the front and holds two of equal score
C3_Witness ==
    /\ RankedResult
    /\ Len(result.statistics) >= 3
    /\ result.statistics[1] # scoredContent.statistics[1]
    /\ \E i, j \in 1..Len(result.statistics) :
         i < j /\ result.statistics[i].relevanceScore = result.statistics[j].relevanceScore

(* C4 as stated: for any maxStats and maxQuotes the caller supplies, at     *)
(* most maxStats statistics and at most maxQuotes quotes are returned.      *)
C4_AtMostMax ==
    RankedResult =>
        /\ Len(result.statistics) <= options.maxStats
        /\ Len(result.quotes) <= options.maxQuotes

(* C4 amended: for any non-negative maxStats and maxQuotes, at most         *)
(* maxStats statistics and at most maxQuotes quotes are returned, however   *)
(* many candidates reach the threshold.                                     *)
C4_AtMostNonNegativeMax ==
    RankedResult =>
        /\ options.maxStats >= 0 => Len(result.statistics) <= options.maxStats
        /\ options.maxQuotes >= 0 => Len(result.quotes) <= options.maxQuotes

\* more statistics reach the threshold than maxStats allows
C4_Witness ==
    /\ RankedResult
    /\ options.maxStats >= 1
    /\ Len(FilterRelevant(scoredContent.statistics, options.relevanceThreshold))
         > options.maxStats
    /\ Len(result.statistics) = options.maxStats

C6_FailureIsNeutral ==
    \A i \in settled :
        answers[i].kind = "failed" =>
            /\ scoredItems[i].relevanceScore = NeutralScore
            /\ scoredItems[i].relevanceReason = "Could not determine relevance"
            /\ DOMAIN scoredItems[i] = DOMAIN allItems[i] \cup {"relevanceScore", "relevanceReason"}
            /\ \A f \in DOMAIN allItems[i] : scoredItems[i][f] = allItems[i][f]

\* a scoring call has failed
C6_Witness == \E i \in settled : answers[i].kind = "failed"

(* C7: every scored item has a relevanceScore in [0, 1] (0..10 tenths),     *)
(* whatever the Completion service replied.                                 *)
C7_ScoreInUnitInterval ==
    \A i \in settled : scoredItems[i].relevanceScore \in 0..10

SharesKey(p, q) ==
    \/ NormalizeTitle(p.title) = NormalizeTitle(q.title)
    \/ (p.doi # "" /\ p.doi = q.doi)

(* C8: the output of removeDuplicatePapers holds no two papers of the same  *)
(* normalized title and no two of the same non-empty DOI, and of input      *)
(* papers that share a title or a DOI only the first in the input may be    *)
(* retained.                                                                *)
C8_FirstOccurrenceWins ==
    cursor = Len(papers) =>
        /\ \A i, j \in 1..Len(unique) : i < j => ~SharesKey(unique[i], unique[j])
        /\ \A i, j \in 1..Len(papers) :
             (i < j /\ SharesKey(papers[i], papers[j])) => j \notin Range(keptAt)

(* C9: when the extractor yields no statistics and no quotes, the pipeline  *)
(* returns empty statistics and quotes with the message "No statistics or   *)
(* quotes were found in the source file.", and has issued no scoring call   *)
(* and no recommendation call.                                              *)
C9_EmptyShortCircuit ==
    ( /\ extractHow # "none"
      /\ HasKey(extractedContent, "statistics")
      /\ HasKey(extractedContent, "quotes")
      /\ extractedContent.statistics = <<>>
      /\ extractedContent.quotes = <<>> )
    => /\ pc = "returned"
       /\ result.statistics = <<>>
       /\ result.quotes = <<>>
       /\ HasKey(result, "message")
       /\ result.message = "No statistics or quotes were found in the source file."
       /\ ~Issued("score")
       /\ ~Issued("recommend")

\* an empty source whose extraction reply parsed to two empty lists
C9_Witness ==
    /\ pc = "returned"
    /\ sourceText = <<>>
    /\ extractHow = "parsed"
    /\ extractedContent = [statistics |-> <<>>, quotes |-> <<>>]

(* C10: when candidates were extracted and scored and none has a score at   *)
(* or above the threshold, the pipeline returns (it does not throw) empty   *)
(* statistics and quotes with the fixed guidance as recommendations, and    *)
(* no recommendation call is issued.                                        *)
C10_NothingRelevant ==
    ( /\ Scored
      /\ allItems # <<>>
      /\ \A i \in 1..Len(allItems) :
            scoredItems[i].relevanceScore < options.relevanceThreshold )
    => /\ pc = "returned"
       /\ result.statistics = <<>>
       /\ result.quotes = <<>>
       /\ HasKey(result, "recommendations")
       /\ result.recommendations = FixedGuidance
       /\ ~Issued("recommend")

\* two candidates scored, both below the threshold
C10_Witness ==
    /\ Scored
    /\ Len(allItems) >= 2
    /\ \A i \in 1..Len(allItems) : scoredItems[i].relevanceScore < options.relevanceThreshold
    /\ pc = "returned"

(* C12 as stated: when the intent-analysis reply holds no JSON object, or   *)
(* holds a malformed one, analyzeUserNeeds returns the placeholder whose    *)
(* mainArgument is "Could not determine main argument" and whose audience   *)
(* is "general", and the extraction call is issued.                         *)
C12_OnePlaceholder ==
    analysisHow \in {"noobject", "malformed"}
        => /\ userContext = Placeholder("Could not determine main argument")
           /\ userContext.audience = "general"
           /\ Issued("extract")

(* C12 amended: analyzeUserNeeds does not raise in either case and the      *)
(* extraction call is issued; the placeholder's audience is "general" and   *)
(* its mainArgument is "Could not determine main argument" when the reply   *)
(* holds no JSON object, "Analysis unavailable" when it holds a malformed   *)
(* one.                                                                     *)
C12_PlaceholderPerCause ==
    /\ analysisHow = "noobject"
          => userContext = Placeholder("Could not determine main argument")
    /\ analysisHow = "malformed"
          => userContext = Placeholder("Analysis unavailable")
    /\ analysisHow \in {"noobject", "malformed"}
          => /\ userContext.audience = "general"
             /\ Issued("extract")

\* a malformed intent-analysis reply, and the pipeline has gone on to scoring
C12_Witness ==
    /\ analysisHow = "malformed"
    /\ Issued("score")
    /\ pc = "scoring"

(* C19: whichever scoring calls have settled already, a scoring call that   *)
(* settles fills the place of its own candidate and no other, with that     *)
(* candidate's fields and the score its own reply stated; and when the      *)
(* batch resolves, the scored statistics and the scored quotes are those    *)
(* places in extraction order.                                              *)
C19_OrderIrrelevant ==
    [][ /\ (pc = "scoring" /\ settled' # settled) =>
            \E i \in (1..Len(allItems)) \ settled :
               /\ settled' = settled \cup {i}
               /\ \A j \in (1..Len(allItems)) \ {i} : scoredItems'[j] = scoredItems[j]
               /\ AsExtracted(scoredItems'[i]) = AsExtracted(allItems[i])
               /\ scoredItems'[i].type = allItems[i].type
               /\ scoredItems'[i].relevanceScore =
                     (IF answers'[i].kind = "object" /\ answers'[i].score # 0
                      THEN answers'[i].score ELSE NeutralScore)
        /\ (~Scored /\ Scored') =>
            LET ns == Len(extractedContent.statistics)
                nq == Len(extractedContent.quotes)
            IN /\ scoredContent'.statistics = SubSeq(scoredItems, 1, ns)
               /\ scoredContent'.quotes = SubSeq(scoredItems, ns + 1, ns + nq)
               /\ \A i \in 1..ns :
                    AsExtracted(scoredContent'.statistics[i]) = extractedContent.statistics[i]
               /\ \A i \in 1..nq :
                    AsExtracted(scoredContent'.quotes[i]) = extractedContent.quotes[i] ]_vars

\* the second scoring call has settled with a score of its own while the
\* first is still pending
C19_Witness ==
    /\ pc = "scoring"
    /\ 1 \notin settled
    /\ 2 \in settled
    /\ answers[2].kind = "object"
    /\ scoredItems[2].relevanceScore = 7

\* the Completion calls were issued in the order analysis, extraction,
\* scoring, recommendation
CallsInOrder ==
    LET stage(kind) == CASE kind = "analyze" -> 1 [] kind = "extract" -> 2
                         [] kind = "score" -> 3 [] kind = "recommend" -> 4
    IN \A i, j \in 1..Len(callLog) : i < j => stage(callLog[i]) <= stage(callLog[j])

\* the order of the stages up to the return
StagesInOrder ==
    /\ CallsInOrder
    /\ Issued("extract") => sourceRead
    /\ Issued("score") => /\ analysisHow # "none"
                          /\ extractHow # "none"
                          /\ HasKey(extractedContent, "statistics")
    /\ Issued("recommend") => /\ settled = 1..Len(allItems)
                              /\ Scored
                              /\ pc # "threw" => RankedResult

(* C20 as stated: the extraction call is issued only after the source has   *)
(* been read, no scoring call before intent analysis and extraction have    *)
(* completed, the recommendation call only after every scoring call has     *)
(* settled and ranking is done, and a result is returned only after the     *)
(* recommendation step.                                                     *)
C20_ReturnAfterRecommendation ==
    /\ StagesInOrder
    /\ pc = "returned" => HasKey(result, "recommendations")

(* C20 amended: the same order of the calls; a result is returned only      *)
(* after the recommendation step unless the extraction was empty, in which  *)
(* case it is returned right after extraction, with no scoring, ranking or  *)
(* recommendation step.                                                     *)
C20_ReturnAfterRecommendationUnlessEmpty ==
    /\ StagesInOrder
    /\ pc = "returned" =>
         IF NothingExtracted(extractedContent)
         THEN /\ HasKey(result, "message")
              /\ ~HasKey(result, "recommendations")
              /\ ~Issued("score")
              /\ ~Scored
         ELSE /\ Scored
              /\ settled = 1..Len(allItems)
              /\ HasKey(result, "recommendations")
    /\ pc = "recommending" => ~HasKey(result, "recommendations")

\* a run through every stage: two scoring calls, a recommendation call, and
\* the result returned with the recommendations of the reply
C20_Witness ==
    /\ pc = "returned"
    /\ Len(allItems) >= 2
    /\ Issued("recommend")
    /\ HasKey(result, "recommendations")

\* a user text of the research finder that is empty or all whitespace
Blank(text) == \A i \in 1..Len(text) : text[i] = SP

(* C13: with the credential missing, the user text empty or the source      *)
(* unreadable, findRelevantQuotesAndStats issues no Completion call and     *)
(* goes nowhere but to its error (it waits for the read only when the read  *)
(* is what fails); with the credential missing or the user text empty or    *)
(* all whitespace, the research finder issues no Completion call and no     *)
(* search request and goes nowhere but to its error.                        *)
C13_FatalBeforeAnyCall ==
    /\ (pc # "unused" /\ (~apiKey \/ userText = "" \/ sourceFilePath \in {"", "missing.txt"}))
          => /\ callLog = <<>>
             /\ pc \in {"idle", "reading", "threw"}
             /\ pc = "reading" => (apiKey /\ userText # "" /\ sourceFilePath = "missing.txt")
             /\ pc = "threw" => (error # <<>> /\ result = EmptyObject)
    /\ (rpc # "unused" /\ (~apiKey \/ Blank(researchText)))
          => /\ researchCalls = <<>>
             /\ queries = <<>>
             /\ rpc \in {"idle", "threw"}
             /\ rpc = "threw" => (researchError # <<>> /\ articles = <<>>)

\* the quote finder has failed on a source it could not read, its credential
\* and user text in order
C13_Witness ==
    /\ pc = "threw"
    /\ apiKey
    /\ userText # ""
    /\ sourceFilePath = "missing.txt"
    /\ error = Wrapped(<<"Failed to read source file", "ENOENT">>)

\* the papers of the requests of one source that were answered
Succeeded(given) ==
    Concat([k \in 1..Len(given) |-> IF given[k].ok THEN given[k].papers ELSE <<>>])

(* C14: whichever requests fail, searchMultipleHumanitiesSources does not   *)
(* reject; a source whose requests all failed settles with no papers, and   *)
(* the list handed to removeDuplicatePapers is, source by source and request *)
(* by request, every paper of the requests that were answered.              *)
C14_FailuresContributeNothing ==
    /\ rpc = "searching" =>
          \A s \in Sources :
             (found[s].status # "pending" /\ \A k \in 1..Len(responses[s]) : ~responses[s][k].ok)
                => (found[s].status = "fulfilled" /\ found[s].value = <<>>)
    /\ rpc = "deduplicating" =>
          papers = Concat([s \in Sources |-> Succeeded(responses[s])])
    /\ rpc = "threw" => queries = <<>>

\* every request of one source failed, another source had one request fail
\* and one answered with a paper, and the list went on to deduplication
C14_Witness ==
    /\ rpc = "deduplicating"
    /\ \E s \in Sources : \A k \in 1..Len(responses[s]) : ~responses[s][k].ok
    /\ \E s \in Sources : \E k, l \in 1..Len(responses[s]) :
          /\ ~responses[s][k].ok
          /\ responses[s][l].ok
          /\ responses[s][l].papers # <<>>
    /\ Len(papers) >= 2

(* C15: when the topic-extraction reply is not parsed as a JSON array and   *)
(* the user text is not blank, at most five fallback topics are             *)
(* substituted, there is at least one, and the research finder does not     *)
(* end with an error.                                                       *)
C15_FallbackTopicsNeverFail ==
    (topicsHow \in {"lines", "fallback"} /\ ~Blank(researchText))
        => /\ Len(topics) <= FallbackTopicCap
           /\ Len(topics) >= 1
           /\ rpc # "threw"

(* C16 as stated: for any maxPapers, either entry point returns at most     *)
(* maxPapers papers.                                                        *)
C16_AtMostMaxPapers ==
    rpc = "returned" => Len(articles) <= maxPapers

(* C16 amended: for any non-negative maxPapers and however many papers the  *)
(* sources return, either entry point returns at most maxPapers papers      *)
(* (and with analysis at most twice maxPapers papers are re-scored).        *)
C16_AtMostNonNegativeMaxPapers ==
    maxPapers >= 0 =>
        /\ rpc = "returned" => Len(articles) <= maxPapers
        /\ Len(analyzedPapers) <= 2 * maxPapers

\* with analysis and maxPapers 1: three unique papers found, two re-scored,
\* one returned
C16_Witness ==
    /\ rpc = "returned"
    /\ withAnalysis
    /\ maxPapers = 1
    /\ Len(unique) = 3
    /\ Len(analyzedPapers) = 2
    /\ Len(articles) = 1

(* C17: a paper whose re-scoring call failed carries relevanceScore 5 and   *)
(* relevanceAnalysis "Analysis unavailable", every paper keeps its own      *)
(* fields and the score its own reply stated, papers still pending are      *)
(* untouched, the research finder never fails once re-scoring has begun,    *)
(* and the list returned with analysis is in non-increasing order of        *)
(* relevanceScore.                                                          *)
C17_RescoringIsolated ==
    /\ rpc \in {"rescoring", "returned"} =>
         \A i \in 1..Len(analyzedPapers) :
            LET paper == SliceTo(unique, Requested)[i]
            IN /\ \A f \in DOMAIN paper : analyzedPapers[i][f] = paper[f]
               /\ i \notin rescored => analyzedPapers[i] = paper
               /\ (i \in rescored /\ verdicts[i].kind = "failed") =>
                     /\ analyzedPapers[i].relevanceScore = UnavailableScore
                     /\ analyzedPapers[i].relevanceAnalysis = <<Chars("Analysis unavailable")>>
               /\ (i \in rescored /\ verdicts[i].kind = "number") =>
                     analyzedPapers[i].relevanceScore = verdicts[i].score
    /\ rpc = "threw" => "rescore" \notin Range(researchCalls)
    /\ (rpc = "returned" /\ withAnalysis) =>
         \A i, j \in 1..Len(articles) :
            i < j => articles[i].relevanceScore >= articles[j].relevanceScore

\* the re-scoring of one paper failed, a later paper was given a 7, and the
\* list returned puts the later paper first
C17_Witness ==
    /\ rpc = "returned"
    /\ withAnalysis
    /\ Len(articles) >= 2
    /\ \E i, j \in 1..Len(analyzedPapers) :
          /\ i < j
          /\ verdicts[i].kind = "failed"
          /\ verdicts[j].kind = "number"
          /\ verdicts[j].score = 7
          /\ articles[1] = analyzedPapers[j]
          /\ articles[2] = analyzedPapers[i]

(* C18: every paper returned with analysis carries a relevanceScore between *)
(* 1 and 10, whatever the Completion service replied.                       *)
C18_RelevanceScoreInRange ==
    (rpc = "returned" /\ withAnalysis) =>
        \A i \in 1..Len(articles) : articles[i].relevanceScore \in 1..10

IsPrefix(p, whole) == Len(p) <= Len(whole) /\ p = SubSeq(whole, 1, Len(p))

(* C21: readSourceFile returns the content as it is for .txt, .md and any   *)
(* extension it does not know; for .csv the first 100 lines, a prefix of    *)
(* the content; for .json the string when the root is a string and the      *)
(* value serialized again otherwise, and an error, not the raw text, when   *)
(* the file does not parse.                                                 *)
C21_ReadByType ==
    (readPc = "done" /\ fileExists) =>
        LET ext == fileExtension(filePath)
            doc == parseDocument(fileContent)
        IN /\ ext \notin {".json", ".csv"} => readResult = ReadOk(fileContent)
           /\ ext = ".csv" =>
                /\ readResult.ok
                /\ IsPrefix(readResult.v, fileContent)
                /\ Len(readResult.v) = Min2(Len(fileContent), CsvLineCap)
           /\ ext = ".json" =>
                /\ (doc.ok /\ doc.root = "string") =>
                       \A i \in 1..Len(fileContent) : \A j \in 1..Len(fileContent[i]) :
                           readResult = ReadOk(<< <<RAW(fileContent[i][j].v)>> >>)
                /\ (doc.ok /\ doc.root = "object") =>
                       /\ readResult.ok
                       /\ parseDocument(readResult.v) = doc
                       /\ readResult.v \in {<< <<LB, RB>> >>, << <<LB>>, <<MEM(doc.v)>>, <<RB>> >>}
                /\ ~doc.ok =>
                       /\ ~readResult.ok
                       /\ readResult.v # fileContent
                       /\ readResult.error[1] = "Failed to read source file"

C21_Witness ==
    /\ readPc = "done"
    /\ fileExists
    /\ fileExtension(filePath) = ".csv"
    /\ Len(fileContent) > CsvLineCap
    /\ Len(readResult.v) = CsvLineCap

CallCount(kind) == Cardinality({i \in 1..Len(callLog) : callLog[i] = kind})

(* C22: an invocation issues at most one intent-analysis call, one          *)
(* extraction call and one recommendation call and no other kind of call    *)
(* but scoring calls; once N >= 1 candidates are extracted it has issued    *)
(* exactly one intent-analysis call, one extraction call and N scoring      *)
(* calls, however many of the calls have failed.                            *)
C22_OneCallPerStage ==
    /\ CallCount("analyze") <= 1
    /\ CallCount("extract") <= 1
    /\ CallCount("recommend") <= 1
    /\ Len(callLog) = CallCount("analyze") + CallCount("extract")
                      + CallCount("score") + CallCount("recommend")
    /\ IF allItems # <<>>
       THEN /\ CallCount("analyze") = 1
            /\ CallCount("extract") = 1
            /\ CallCount("score") = Len(allItems)
            /\ Len(allItems) = Len(extractedContent.statistics) + Len(extractedContent.quotes)
       ELSE CallCount("score") = 0

C22_Witness ==
    /\ pc = "returned"
    /\ Len(allItems) >= 2
    /\ \E i \in settled : answers[i].kind = "failed"
    /\ CallCount("recommend") = 1
    /\ CallCount("score") = Len(allItems)

EndsWith(message, cause) ==
    /\ Len(message) >= Len(cause)
    /\ SubSeq(message, Len(message) - Len(cause) + 1, Len(message)) = cause

(* C23: when the call of analyzeUserNeeds, of extractFromSource or of        *)
(* generateUsageRecommendations rejects, the pipeline rejects with           *)
(* "Failed to analyze content" followed by the upstream message and with no  *)
(* result; when a scoring call rejects, the pipeline goes on scoring and     *)
(* raises nothing.                                                           *)
C23_UpstreamRejectionPropagates ==
    [][/\ (\/ AnalyzeReply(Rejected)
           \/ ExtractReply(Rejected)
           \/ RecommendReply(Rejected))
          => /\ pc' = "threw"
             /\ error'[1] = "Failed to analyze content"
             /\ EndsWith(error', UpstreamError)
             /\ result' = EmptyObject
       /\ \A i \in 1..Len(allItems) :
              ScoreReply(i, Rejected)
              => /\ pc' = "scoring"
                 /\ error' = <<>>
                 /\ i \in settled']_vars

C23_Witness ==
    /\ pc = "threw"
    /\ EndsWith(error, UpstreamError)
    /\ callLog # <<>>
    /\ callLog[Len(callLog)] = "recommend"
    /\ \E i \in settled : answers[i].kind = "failed"
    /\ result = EmptyObject

(* C24: every candidate that extractFromSource returns from the pattern      *)
(* extractor was matched inside the first 8000 characters of the source,     *)
(* the prefix the extraction call was given.                                 *)
C24_FallbackWithinPromptPrefix ==
    extractHow = "fallback" =>
        /\ \A i \in 1..Len(extractedContent.statistics) :
               extractedContent.statistics[i].position < PromptPrefixLen
        /\ \A i \in 1..Len(extractedContent.quotes) :
               extractedContent.quotes[i].position < PromptPrefixLen

\* the least integer not below a third of n
ThirdRoundedUp(n) ==
    CHOOSE q \in (Min2(n, 0) - 1)..(Max2(n, 0) + 1) : 3 * q >= n /\ 3 * (q - 1) < n

(* C25: each of the three sources sends a request for the first topic and   *)
(* for the second and for no other, so no more than 6 requests in all, and  *)
(* every request asks for min(ceil(maxPapers / 3), 10) results, maxPapers   *)
(* being the argument of searchMultipleHumanitiesSources.                   *)
C25_SixRequestsAtMost ==
    /\ Len(queries) \in {0, 3}
    /\ \A s \in 1..Len(queries) :
           /\ Len(queries[s]) <= 2
           /\ \A k \in 1..Len(queries[s]) :
                  /\ queries[s][k].topic = topics[k]
                  /\ queries[s][k].limit = Min2(ThirdRoundedUp(Requested), 10)
    /\ Len(Concat(queries)) <= 6

C25_Witness ==
    /\ rpc = "deduplicating"
    /\ Len(topics) >= 3
    /\ Len(Concat(queries)) = 6
    /\ \E s \in 1..Len(queries) : queries[s][2].limit = 10
    /\ \E s \in 1..Len(queries) : \E k \in 1..Len(responses[s]) : ~responses[s][k].ok

(* C28: no item that scoreIndividualItem has returned carries               *)
(* relevanceScore 0; when the reply is an object whose score is 0 or        *)
(* missing, the item carries 0.5 and the reason of the reply, or "No        *)
(* specific reason provided" when the reply states none.                    *)
C28_NeverZeroRelevance ==
    [][/\ \A i \in settled' : scoredItems'[i].relevanceScore # 0
       /\ \A i \in 1..Len(allItems) : \A obj \in ScoreObjects :
              (/\ ScoreReply(i, Reply(<<LB, MEM(obj), RB>>))
               /\ (HasKey(obj, "score") => obj.score = 0))
              => /\ scoredItems'[i].relevanceScore = 5
                 /\ scoredItems'[i].relevanceReason =
                        IF HasKey(obj, "reason") THEN obj.reason
                        ELSE "No specific reason provided"
                 /\ scoredItems'[i].text = allItems[i].text]_vars

C28_Witness ==
    \E i \in settled :
        /\ answers[i] = [kind |-> "object", score |-> 0]
        /\ scoredItems[i].relevanceScore = 5
        /\ scoredItems[i].relevanceReason = "supports the main argument"

(* C29: the papers removeDuplicatePapers has kept are papers of its input,  *)
(* unchanged and in input order; every paper it has passed over has the     *)
(* normalized title, or the non-empty DOI, of a paper kept from an earlier  *)
(* place of the input, and one without a DOI has such a paper's title.      *)
C29_DropsOnlyDuplicatesOfKept ==
    /\ Len(keptAt) = Len(unique)
    /\ \A k \in 1..Len(unique) :
           /\ keptAt[k] \in 1..cursor
           /\ unique[k] = papers[keptAt[k]]
           /\ k > 1 => keptAt[k - 1] < keptAt[k]
    /\ \A j \in (1..cursor) \ Range(keptAt) :
           \E k \in 1..Len(unique) :
               /\ keptAt[k] < j
               /\ \/ NormalizeTitle(unique[k].title) = NormalizeTitle(papers[j].title)
                  \/ (papers[j].doi # "" /\ unique[k].doi = papers[j].doi)
               /\ papers[j].doi = ""
                  => NormalizeTitle(unique[k].title) = NormalizeTitle(papers[j].title)

C29_Witness ==
    /\ cursor = Len(papers)
    /\ Len(papers) = 3
    /\ Len(unique) = 1
    /\ papers[2].doi = ""
    /\ papers[3].doi = unique[1].doi
    /\ NormalizeTitle(papers[3].title) # NormalizeTitle(unique[1].title)

(* C26: a request that passes the checks of POST is answered from the cache *)
(* exactly when, at its start, the cache holds an entry for its key that is *)
(* less than 30 seconds old, and then it issues no upstream call; any other *)
(* such request issues one upstream call, and when that call resolves the   *)
(* suggestion it returns is stored under the request's key.                 *)
C26_CachedOnlyWhenFresh ==
    [][/\ \A r \in 1..Len(requests') :
              (r > Len(requests) /\ requests'[r].status = 200)
              => LET q == requests'[r]
                 IN /\ q.currentTime = clock
                    /\ IF /\ q.key \in DOMAIN requestCache
                          /\ clock - requestCache[q.key].timestamp < 30
                       THEN /\ q.state = "answered"
                            /\ q.fromCache
                            /\ q.calls = 0
                            /\ q.suggestion = requestCache[q.key].suggestion
                       ELSE /\ q.state = "awaiting"
                            /\ ~q.fromCache
                            /\ q.calls = 1
       /\ \A r \in 1..Len(requests) :
              (requests[r].state = "awaiting" /\ requests'[r].state = "answered")
              => /\ requests'[r].calls = 1
                 /\ ~requests'[r].fromCache
                 /\ requests'[r].status = 200
                    => /\ requests[r].key \in DOMAIN requestCache'
                       /\ requestCache'[requests[r].key].suggestion = requests'[r].suggestion
                       /\ requestCache'[requests[r].key].timestamp = requests[r].currentTime]_vars

C26_Witness ==
    /\ Len(requests) = 2
    /\ requests[1].key = requests[2].key
    /\ requests[1].calls = 1
    /\ requests[2].fromCache
    /\ requests[2].calls = 0
    /\ requests[2].currentTime - requests[1].currentTime = 20
    /\ requests[2].suggestion # <<>>

(* C27: of two requests with the same cache key that start less than 30     *)
(* seconds apart, at most one issues an upstream call, also when the later  *)
(* one starts while the earlier one awaits its reply.                       *)
C27_OneUpstreamCallPerKey ==
    \A r1, r2 \in 1..Len(requests) :
        (/\ r1 < r2
         /\ requests[r1].key = requests[r2].key
         /\ requests[r2].currentTime - requests[r1].currentTime < 30)
        => requests[r1].calls + requests[r2].calls <= 1

(* C30: a suggestion returned for a request was generated for the same      *)
(* (text, tone, purpose, genre, structure, context), and two requests that  *)
(* differ in one of the six have different cache keys.                      *)
C30_KeyTellsInputsApart ==
    /\ \A r \in 1..Len(requests) :
           (requests[r].state = "answered" /\ requests[r].status = 200)
           => requests[r].madeFor = requests[r].input
    /\ \A r1, r2 \in 1..Len(requests) :
           (/\ requests[r1].status = 200
            /\ requests[r2].status = 200
            /\ requests[r1].input # requests[r2].input)
           => requests[r1].key # requests[r2].key

====
